---- MODULE Spec2Model ----
(***************************************************************************)
(* Model of the client-side transfer engine of serve-cli: the resumable    *)
(* single-/multi-connection downloader (download.rs), the temp-file        *)
(* registry and cleanup guard (cleanup.rs), the retry wrapper (retry.rs)   *)
(* and the upload attempt it wraps (upload.rs).                            *)
(*                                                                         *)
(* Bytes: the server's byte at offset o is the value o + 1; a byte of a    *)
(* file that was never written (a hole of a sparse file) is 0; a byte of   *)
(* an older file is Stale.                                                 *)
(***************************************************************************)
EXTENDS Integers, Sequences, FiniteSets, TLC

VARIABLES
    \* ---- download: the probe result and the arguments (fixed in a behaviour)
    srvSize,        \* the size of the remote file
    lengthKnown,    \* probe.length is Some(srvSize)
    acceptRanges,   \* probe.accept_ranges
    connections,    \* effective_connections
    leftover,       \* what an earlier, unrelated transfer left at the temp path
    \* ---- download: the process
    run,            \* number of the current process run
    prevEnd,        \* how the previous run ended
    pc,             \* position of the main thread
    guard,          \* TempCleanupGuard.active, or "none"
    result,         \* result of download_file in this run
    exitCode,
    reported,       \* paths printed as preserved
    registry,       \* TEMP_FILE_REGISTRY
    existing,       \* local `existing`
    partial,        \* local `partial_state`
    st,             \* the PartialDownloadState shared by the workers
    w,              \* the workers, by part index
    lock,           \* holder of the state mutex, 0 when free
    sw,             \* single stream: response position and BufWriter
    hist,           \* history of this run (for the properties)
    \* ---- disk
    tempFile, stateFile, stagingFile, outFile,
    \* ---- range planner / state layout
    pTotal, pParts, pBuild, pPlan,
    \* ---- retry wrapper around the upload attempt
    rMax, script, rpc, attempt, calls, sleeps, rResult, lastErr,
    \* ---- registry / guard exercised on their own
    cDisk, cLast,
    \* ---- probe, mode selection and layout of one download_file call
    hdResp,         \* the server's answer to the HEAD request
    gtResp,         \* the server's answer to GET with Range: bytes=0-0
    reqConn,        \* the `connections` argument (u8)
    persisted,      \* the state side-file found at the temp path
    sel,            \* what the call decided
    \* ---- PartialDownloadState exercised on its own
    ps,             \* the state in memory
    psFile,         \* the file at partial_state_path
    psLast,         \* the last operation and what it saw
    \* ---- the local target of one `download` command
    tDisk,          \* the local paths that exist
    tCall,          \* the command: its arguments, what it did, how it ended
    \* ---- save_partial_state exercised on its own
    svFile,         \* the state side-file
    svStaging,      \* the staging side-file
    svCall,         \* the call of save_partial_state in progress
    svDone,         \* the serialized states handed to fs::write so far
    \* ---- the active-connections counter of one multi-stream download
    acCount,        \* the AtomicUsize
    acW,            \* the workers: where each one is
    acMain,         \* the main thread: position and what it displayed last
    \* ---- is_retryable_error exercised on its own
    ceChain,        \* the causal chain of the error
    ceVerdict       \* what is_retryable_error answered

dlArgs == <<srvSize, lengthKnown, acceptRanges, connections, leftover>>
dlProc == <<run, prevEnd, pc, guard, result, exitCode, reported, registry,
            existing, partial, st, w, lock, sw, hist>>
disk == <<tempFile, stateFile, stagingFile, outFile>>
dlVars == <<dlArgs, dlProc, disk>>
planVars == <<pTotal, pParts, pBuild, pPlan>>
retryVars == <<rMax, script, rpc, attempt, calls, sleeps, rResult, lastErr>>
cleanVars == <<cDisk, cLast>>
selVars == <<hdResp, gtResp, reqConn, persisted, sel>>
stateVars == <<ps, psFile, psLast>>
targetVars == <<tDisk, tCall>>
saveVars == <<svFile, svStaging, svCall, svDone>>
activeVars == <<acCount, acW, acMain>>
classVars == <<ceChain, ceVerdict>>
lateVars == <<saveVars, activeVars, classVars>>
moreVars == <<selVars, stateVars, targetVars, lateVars>>
vars == <<dlVars, planVars, retryVars, cleanVars, moreVars>>
\* What a download leaves alone.
others == <<planVars, retryVars, cleanVars, moreVars>>

----------------------------------------------------------------------------
\* Bounds of the model.

\* Largest remote file, in bytes.
MaxTotal == 7
\* Largest effective connection count.
MaxConn == 2
\* Number of process runs in one behaviour.
MaxRuns == 2
\* Width in bits of the model's u64.
Width == 6
\* Largest part count given to the range planner on its own.
MaxParts == 4
\* Largest max_attempts given to retry.
MaxAttempts == 6
\* Largest max_attempts given to retry.
MaxN == 3
\* Number of temp paths the registry is exercised with on its own.
NumPaths == 3

\* Scaled program constants (the units of the model are bytes).
\* PARTIAL_STATE_UPDATE_THRESHOLD (8 MiB in the source).
Threshold == 2
\* Capacity of std::io::BufWriter (8 KiB in the source's standard library).
BufCap == 2
\* Size of the read buffer (16 KiB in the source).
ReadBuf == 4
\* The cap of effective_connections.
ConnCap == 16

U64 == 2 ^ Width
Stale == 0 - 1
None == 0 - 1

Min(a, b) == IF a < b THEN a ELSE b
Max(a, b) == IF a > b THEN a ELSE b

\* u64 arithmetic of a release build (wrapping) and its overflow condition.
wrapping_add(a, b) == (a + b) % U64
wrapping_sub(a, b) == (a + U64 - b) % U64
wrapping_mul(a, b) == (a * b) % U64
saturating_sub(a, b) == IF a > b THEN a - b ELSE 0
saturating_add(a, b) == Min(a + b, U64 - 1)

----------------------------------------------------------------------------
\* Range planner (download.rs, build_range_plan).

RECURSIVE PlanLoop(_, _, _, _, _)
PlanLoop(total, requested_parts, chunk_size, index, acc) ==
    IF index >= requested_parts THEN acc
    ELSE LET start == wrapping_mul(index, chunk_size)
             ovf1 == index * chunk_size >= U64
         IN  IF start >= total THEN [acc EXCEPT !.overflow = @ \/ ovf1]
             ELSE LET e1 == wrapping_add(start, chunk_size)
                      e2 == wrapping_sub(e1, 1)
                      ovf2 == (start + chunk_size >= U64) \/ (e1 < 1)
                      end == Min(e2, saturating_sub(total, 1))
                  IN  PlanLoop(total, requested_parts, chunk_size, index + 1,
                               [parts |-> Append(acc.parts, [start |-> start, end |-> end]),
                                overflow |-> acc.overflow \/ ovf1 \/ ovf2])

\* The loop with the chunk size computed as the source computes it; `overflow`
\* says whether a u64 operation overflowed on the way (a debug build panics
\* there, a release build wraps).
PlanRun(total, requested_parts) ==
    IF requested_parts = 0 THEN [parts |-> <<>>, overflow |-> FALSE]
    ELSE LET s1 == wrapping_add(total, requested_parts)
             s2 == wrapping_sub(s1, 1)
             ovf0 == (total + requested_parts >= U64) \/ (s1 < 1)
             chunk_size == s2 \div requested_parts
         IN  PlanLoop(total, requested_parts, chunk_size, 0,
                      [parts |-> <<>>, overflow |-> ovf0])

build_range_plan(total, requested_parts) == PlanRun(total, requested_parts).parts

plan_overflows(total, requested_parts) == PlanRun(total, requested_parts).overflow

----------------------------------------------------------------------------
\* PartialDownloadState (download.rs).  total is None or a number.

PartLen(entry) == saturating_add(saturating_sub(entry.end, entry.start), 1)

rebuild_parts(state, total) ==
    LET plan == build_range_plan(total, state.part_count)
    IN  [state EXCEPT !.parts =
            [i \in 1..Len(plan) |->
                [start |-> plan[i].start, end |-> plan[i].end, downloaded |-> 0]]]

NewState(total, part_count) ==
    LET count == Max(part_count, 1)
        base == [total |-> total, part_count |-> count, parts |-> <<>>]
    IN  IF total # None THEN rebuild_parts(base, total)
        ELSE [base EXCEPT !.parts = <<[start |-> 0, end |-> 0, downloaded |-> 0]>>]

ensure_layout(state, total) ==
    LET s1 == [state EXCEPT !.part_count = Max(@, 1)]
    IN  IF Len(s1.parts) # s1.part_count THEN rebuild_parts(s1, total)
        ELSE LET plan == build_range_plan(total, s1.part_count)
             IN  [s1 EXCEPT !.parts =
                    [i \in 1..Len(s1.parts) |->
                        IF i <= Len(plan)
                        THEN LET e == [start |-> plan[i].start, end |-> plan[i].end,
                                       downloaded |-> s1.parts[i].downloaded]
                             IN  [e EXCEPT !.downloaded = Min(@, PartLen(e))]
                        ELSE s1.parts[i]]]

is_complete(state) ==
    \A i \in 1..Len(state.parts) : state.parts[i].downloaded >= PartLen(state.parts[i])

RECURSIVE SumTo(_, _)
SumTo(f, n) == IF n = 0 THEN 0 ELSE f[n] + SumTo(f, n - 1)

\* The sum is a u64 sum: it wraps in a release build and panics in a debug
\* build when it overflows.
CompletedSum(state) ==
    SumTo([i \in 1..Len(state.parts) |->
              Min(state.parts[i].downloaded, PartLen(state.parts[i]))],
          Len(state.parts))

completed_bytes(state) == CompletedSum(state) % U64

completed_overflows(state) == CompletedSum(state) >= U64

\* index is the 0-based index of the source.
set_downloaded(state, index, downloaded) ==
    IF index + 1 \in 1..Len(state.parts)
    THEN [state EXCEPT !.parts[index + 1].downloaded =
             Min(downloaded, PartLen(state.parts[index + 1]))]
    ELSE state

EmptyState == [total |-> None, part_count |-> 0, parts |-> <<>>]

----------------------------------------------------------------------------
\* Files.  A data file is [exists, data]; a state side-file is [exists, val].

NoFile == [exists |-> FALSE, data |-> <<>>]

\* A JSON number: the decimal digits of an unsigned integer, most significant
\* first.
RECURSIVE Digits(_)
Digits(n) == IF n < 10 THEN <<n>> ELSE Append(Digits(n \div 10), n % 10)

RECURSIVE ParseDigits(_)
ParseDigits(ds) ==
    IF Len(ds) = 0 THEN 0
    ELSE 10 * ParseDigits(SubSeq(ds, 1, Len(ds) - 1)) + ds[Len(ds)]

\* A parser that reads the digits of a number least significant first.
FromJsonReversed(json) ==
    LET Rev(ds) == [i \in 1..Len(ds) |-> ds[Len(ds) + 1 - i]]
    IN  [total |-> IF json.total = <<>> THEN None ELSE ParseDigits(Rev(json.total)),
         part_count |-> ParseDigits(Rev(json.part_count)),
         parts |-> [i \in 1..Len(json.parts) |->
                      [start |-> ParseDigits(Rev(json.parts[i].start)),
                       end |-> ParseDigits(Rev(json.parts[i].end)),
                       downloaded |-> ParseDigits(Rev(json.parts[i].downloaded))]]]

\* serde_json::to_vec of a PartialDownloadState: the JSON object, with null
\* (the empty sequence) or a number for the Option<u64>.  `ok` is FALSE for
\* bytes that are no such object.
to_json(state) ==
    [ok |-> TRUE,
     total |-> IF state.total = None THEN <<>> ELSE Digits(state.total),
     part_count |-> Digits(state.part_count),
     parts |-> [i \in 1..Len(state.parts) |->
                  [start |-> Digits(state.parts[i].start),
                   end |-> Digits(state.parts[i].end),
                   downloaded |-> Digits(state.parts[i].downloaded)]]]

\* serde_json::from_slice::<PartialDownloadState>
from_json(json) ==
    [total |-> IF json.total = <<>> THEN None ELSE ParseDigits(json.total),
     part_count |-> ParseDigits(json.part_count),
     parts |-> [i \in 1..Len(json.parts) |->
                  [start |-> ParseDigits(json.parts[i].start),
                   end |-> ParseDigits(json.parts[i].end),
                   downloaded |-> ParseDigits(json.parts[i].downloaded)]]]

Garbled == [ok |-> FALSE, total |-> <<>>, part_count |-> <<>>, parts |-> <<>>]

NoStateFile == [exists |-> FALSE, val |-> Garbled]

ServerByte(o) == o + 1
ServerData == [i \in 1..srvSize |-> ServerByte(i - 1)]

FileLen(f) == IF f.exists THEN Len(f.data) ELSE 0

\* A write that lands one byte after the file cursor.
WriteAtNext(f, pos, bytes) ==
    LET n == Max(Len(f.data), pos + 1 + Len(bytes))
    IN  [exists |-> f.exists,
         data |-> [i \in 1..n |->
                     IF i > pos + 1 /\ i <= pos + 1 + Len(bytes) THEN bytes[i - pos - 1]
                     ELSE IF i <= Len(f.data) THEN f.data[i] ELSE 0]]

\* write(2) of `bytes` at offset `pos` of an open file: extends it, holes are 0.
WriteAt(f, pos, bytes) ==
    LET n == Max(Len(f.data), pos + Len(bytes))
    IN  [exists |-> f.exists,
         data |-> [i \in 1..n |->
                     IF i > pos /\ i <= pos + Len(bytes) THEN bytes[i - pos]
                     ELSE IF i <= Len(f.data) THEN f.data[i] ELSE 0]]

\* The `count` bytes of the remote file from offset `from`.
BodyBytes(from, count) == [j \in 1..count |-> ServerByte(from + j - 1)]

\* File::set_len
SetLen(f, n) ==
    [exists |-> f.exists,
     data |-> [i \in 1..n |-> IF i <= Len(f.data) THEN f.data[i] ELSE 0]]

\* OpenOptions::new().create(true).write(true).open
OpenCreate(f) == IF f.exists THEN f ELSE [exists |-> TRUE, data |-> <<>>]

\* load_partial_state: None when the file cannot be read or parsed, else the
\* parsed state with part_count raised to 1.
load_partial_state(sf) ==
    IF sf.exists /\ sf.val.ok
    THEN [some |-> TRUE, val |-> [from_json(sf.val) EXCEPT !.part_count = Max(@, 1)]]
    ELSE [some |-> FALSE, val |-> EmptyState]

NoPartial == [some |-> FALSE, val |-> EmptyState]

\* std::io::BufWriter::write_all of k bytes with `buf` bytes pending:
\* the number of bytes that reach the file and the number left pending.
BufWrite(buf, k) ==
    IF k < BufCap - buf THEN [flushed |-> 0, pending |-> buf + k]
    ELSE LET b1 == IF k > BufCap - buf THEN 0 ELSE buf
             f1 == buf - b1
         IN  IF k >= BufCap THEN [flushed |-> f1 + k, pending |-> b1]
             ELSE [flushed |-> f1, pending |-> b1 + k]

----------------------------------------------------------------------------
\* Temp-file registry and cleanup guard (cleanup.rs).

TempPath == "tmp"

track_temp_file(reg, path) == reg \cup {path}

\* A registry whose remove does nothing (what C2 rules out).
UntrackKeepsPath(reg, path) == reg

untrack_temp_file(reg, path) == reg \ {path}

\* A drain that copies the paths out and leaves them tracked (what C10 rules out).
DrainKeepsPaths(reg) == [drained |-> reg, left |-> reg]

\* drain_tracked_temp_files: the drained paths and the registry left behind.
drain_tracked_temp_files(reg) == [drained |-> reg, left |-> {}]

abandon_temp_files(reg) == drain_tracked_temp_files(reg)

\* A guard that drains whether or not it was disarmed (what C8 rules out).
GuardDropAlways(active, reg) ==
    [left |-> abandon_temp_files(reg).left, printed |-> abandon_temp_files(reg).drained]

\* Drop for TempCleanupGuard: the registry left and the paths printed.
GuardDrop(active, reg) ==
    IF active THEN [left |-> abandon_temp_files(reg).left,
                    printed |-> abandon_temp_files(reg).drained]
    ELSE [left |-> reg, printed |-> {}]

\* A handler that exits without draining or reporting (what C9 rules out).
SignalHandlerSilent(reg) == [left |-> reg, printed |-> {}, code |-> 130]

\* The Ctrl+C handler: drains, prints, exits with 130.
SignalHandler(reg) ==
    [left |-> abandon_temp_files(reg).left,
     printed |-> abandon_temp_files(reg).drained,
     code |-> 130]


----------------------------------------------------------------------------
\* The download of one file (download.rs, download_file and below).

\* probe.length
Total == IF lengthKnown THEN srvSize ELSE None

NoHist == [mode |-> "none", finalizeStarted |-> FALSE, renamed |-> FALSE,
           outAtStart |-> NoFile, restarted |-> FALSE, removeFailed |-> FALSE,
           renameFailed |-> FALSE]
NoWriter == [srvNext |-> 0, fileNext |-> 0, buf |-> 0]
NoEnd == [how |-> "none", temp |-> FALSE, at |-> "none", mode |-> "none"]

IdleWorker == [pc |-> "idle", start |-> 0, end |-> 0, downloaded |-> 0, local |-> 0,
               remaining |-> 0, last |-> 0, buf |-> 0, srvNext |-> 0, fileNext |-> 0,
               res |-> "none", eof |-> FALSE]

\* The files an earlier transfer to the same output may have left behind.
LeftTemp(kind) ==
    CASE kind = "none" -> NoFile
      [] kind = "other" -> [exists |-> TRUE, data |-> [i \in 1..(srvSize + 1) |-> Stale]]
      [] kind = "same" -> [exists |-> TRUE, data |-> [i \in 1..srvSize |-> 0]]

LeftState(kind) ==
    CASE kind = "none" -> NoStateFile
      [] kind = "other" -> [exists |-> TRUE, val |-> to_json(NewState(srvSize + 1, 2))]
      [] kind = "same" -> [exists |-> TRUE, val |-> to_json(NewState(srvSize, 2))]

\* What a process has before download_file runs.
FreshProcess ==
    /\ pc = "start"
    /\ guard = "none"
    /\ result = "none"
    /\ exitCode = None
    /\ reported = {}
    /\ registry = {}
    /\ existing = 0
    /\ partial = NoPartial
    /\ st = EmptyState
    /\ w = <<>>
    /\ lock = 0
    /\ sw = NoWriter
    /\ hist = NoHist

DlInit ==
    /\ srvSize \in 0..MaxTotal
    /\ lengthKnown \in BOOLEAN
    /\ acceptRanges \in BOOLEAN
    /\ connections \in 1..MaxConn
    /\ leftover \in {"none", "other", "same"}
    /\ (leftover = "same" => srvSize > 0)
    /\ run = 1
    /\ prevEnd = NoEnd
    /\ FreshProcess
    /\ tempFile = LeftTemp(leftover)
    /\ stateFile = LeftState(leftover)
    /\ stagingFile = NoStateFile
    /\ outFile \in {NoFile, [exists |-> TRUE, data |-> <<Stale>>]}

\* clear_partial_state removes both side-files.
ClearPartialState ==
    /\ stateFile' = NoStateFile
    /\ stagingFile' = NoStateFile

\* download_file from the creation of the guard (lines 198-216) and the head
\* of download_to_single_file (lines 571-579).
DlStart ==
    /\ pc = "start"
    /\ guard' = "armed"
    /\ hist' = [NoHist EXCEPT !.outAtStart = outFile,
                              !.mode = IF Total = 0 THEN "empty" ELSE "none"]
    /\ IF Total = 0
       THEN /\ pc' = "empty_create"
            /\ UNCHANGED <<registry, existing, partial>>
       ELSE /\ pc' = "s1"
            /\ registry' = track_temp_file(registry, TempPath)
            /\ existing' = FileLen(tempFile)
            /\ partial' = load_partial_state(stateFile)
    /\ UNCHANGED <<others, dlArgs, run, prevEnd, result, exitCode, reported, st, w, lock, sw, disk>>

\* finalize_empty_file, one file-system call per step.
EmptyCreate ==
    /\ pc = "empty_create"
    /\ registry' = track_temp_file(registry, TempPath)
    /\ tempFile' = [exists |-> TRUE, data |-> <<>>]
    /\ pc' = "empty_remove"
    /\ UNCHANGED <<others, dlArgs, run, prevEnd, guard, result, exitCode, reported, existing,
                   partial, st, w, lock, sw, hist, stateFile, stagingFile, outFile>>

\* remove_file(output).ok(): a failure is ignored.
EmptyRemove ==
    /\ pc = "empty_remove"
    /\ \E ok \in BOOLEAN :
         /\ outFile' = IF outFile.exists /\ ok THEN NoFile ELSE outFile
         /\ hist' = [hist EXCEPT !.removeFailed = outFile.exists /\ ~ok]
    /\ pc' = "empty_rename"
    /\ UNCHANGED <<others, dlArgs, run, prevEnd, guard, result, exitCode, reported, registry,
                   existing, partial, st, w, lock, sw, tempFile, stateFile,
                   stagingFile>>

EmptyRename ==
    /\ pc = "empty_rename"
    /\ \E ok \in BOOLEAN :
         IF ok
         THEN /\ outFile' = tempFile
              /\ tempFile' = NoFile
              /\ hist' = [hist EXCEPT !.renamed = TRUE, !.finalizeStarted = TRUE]
              /\ pc' = "empty_clear"
         ELSE /\ pc' = "ret_err"
              /\ hist' = [hist EXCEPT !.finalizeStarted = TRUE, !.renameFailed = TRUE]
              /\ UNCHANGED <<outFile, tempFile>>
    /\ UNCHANGED <<others, dlArgs, run, prevEnd, guard, result, exitCode, reported, registry,
                   existing, partial, st, w, lock, sw, stateFile, stagingFile>>

EmptyClear ==
    /\ pc = "empty_clear"
    /\ registry' = untrack_temp_file(registry, TempPath)
    /\ ClearPartialState
    /\ pc' = "ret_ok"
    /\ UNCHANGED <<others, dlArgs, run, prevEnd, guard, result, exitCode, reported, existing,
                   partial, st, w, lock, sw, hist, tempFile, outFile>>

\* download_to_single_file, lines 581-594: the persisted total differs.
Mismatch ==
    /\ partial.some
    /\ partial.val.total # None
    /\ Total # None
    /\ partial.val.total # Total

\* A restart that leaves the old temp file in place.
DlMismatchKeepsTemp ==
    /\ pc = "s1"
    /\ Mismatch
    /\ pc' = "s1b"
    /\ UNCHANGED <<others, dlArgs, run, prevEnd, guard, result, exitCode, reported, registry,
                   existing, partial, st, w, lock, sw, hist, disk>>

DlMismatchRemove ==
    /\ pc = "s1"
    /\ Mismatch
    /\ tempFile' = NoFile
    /\ pc' = "s1b"
    /\ UNCHANGED <<others, dlArgs, run, prevEnd, guard, result, exitCode, reported, registry,
                   existing, partial, st, w, lock, sw, hist, stateFile, stagingFile,
                   outFile>>

DlMismatchClear ==
    /\ pc = "s1b"
    /\ ClearPartialState
    /\ partial' = NoPartial
    /\ existing' = 0
    /\ pc' = "s2"
    /\ UNCHANGED <<others, dlArgs, run, prevEnd, guard, result, exitCode, reported, registry,
                   st, w, lock, sw, hist, tempFile, outFile>>

\* Lines 596-613: the temp file already holds `total` bytes or more.
FinalizeAsIs ==
    /\ Total # None
    /\ existing >= Total
    /\ Total > 0
    /\ (partial.some => is_complete(partial.val))

DlResumeCheck ==
    /\ \/ pc = "s2"
       \/ pc = "s1" /\ ~Mismatch
    /\ IF FinalizeAsIs
       THEN /\ pc' = "fin_remove"
            /\ hist' = [hist EXCEPT !.finalizeStarted = TRUE, !.mode = "asis"]
            /\ UNCHANGED <<existing, tempFile>>
       ELSE LET cut == Total # None /\ ~(existing >= Total /\ Total > 0)
                            /\ existing > Total
                ex1 == IF cut THEN Total ELSE existing
            IN  /\ existing' = ex1
                /\ tempFile' = IF cut /\ tempFile.exists THEN SetLen(tempFile, Total)
                               ELSE tempFile
                /\ pc' = IF ex1 > 0 /\ ~acceptRanges THEN "s3" ELSE "s4"
                /\ UNCHANGED hist
    /\ UNCHANGED <<others, dlArgs, run, prevEnd, guard, result, exitCode, reported, registry,
                   partial, st, w, lock, sw, stateFile, stagingFile, outFile>>

\* Lines 615-620: partial data but no range support.
DlNoRangeRemove ==
    /\ pc = "s3"
    /\ existing' = 0
    /\ tempFile' = NoFile
    /\ pc' = "s3b"
    /\ UNCHANGED <<others, dlArgs, run, prevEnd, guard, result, exitCode, reported, registry,
                   partial, st, w, lock, sw, hist, stateFile, stagingFile, outFile>>

DlNoRangeClear ==
    /\ pc = "s3b"
    /\ ClearPartialState
    /\ partial' = NoPartial
    /\ pc' = "s4"
    /\ UNCHANGED <<others, dlArgs, run, prevEnd, guard, result, exitCode, reported, registry,
                   existing, st, w, lock, sw, hist, tempFile, outFile>>

\* Lines 622-651: multi-stream or single stream.
MultiSupported == Total # None /\ acceptRanges /\ Max(connections, 1) > 1

DlBranch ==
    /\ pc = "s4"
    /\ IF MultiSupported
       THEN LET s0 == IF partial.some THEN partial.val
                      ELSE NewState(Total, Max(connections, 1))
            IN  /\ st' = ensure_layout([s0 EXCEPT !.total = Total], Total)
                /\ pc' = "m_open"
                /\ hist' = [hist EXCEPT !.mode = "multi"]
       ELSE /\ pc' = IF Total # None /\ partial.some THEN "g_clear" ELSE "g_request"
            /\ hist' = [hist EXCEPT !.mode = "single"]
            /\ UNCHANGED st
    /\ UNCHANGED <<others, dlArgs, run, prevEnd, guard, result, exitCode, reported, registry,
                   existing, partial, w, lock, sw, disk>>


\* download_with_multiple_connections, lines 357-373.
MOpen ==
    /\ pc = "m_open"
    /\ st' = ensure_layout([st EXCEPT !.total = Total, !.part_count = Max(@, 1)], Total)
    /\ tempFile' = OpenCreate(tempFile)
    /\ pc' = "m_setlen"
    /\ UNCHANGED <<others, dlArgs, run, prevEnd, guard, result, exitCode, reported, registry,
                   existing, partial, w, lock, sw, hist, stateFile, stagingFile, outFile>>

MSetLen ==
    /\ pc = "m_setlen"
    /\ tempFile' = SetLen(tempFile, Total)
    /\ pc' = "m_save1"
    /\ UNCHANGED <<others, dlArgs, run, prevEnd, guard, result, exitCode, reported, registry,
                   existing, partial, st, w, lock, sw, hist, stateFile, stagingFile,
                   outFile>>

\* save_partial_state: fs::write of the staging file, then fs::rename.
SaveStaging(state) == stagingFile' = [exists |-> TRUE, val |-> to_json(state)]

SaveRename ==
    /\ stateFile' = stagingFile
    /\ stagingFile' = NoStateFile

MSaveStaging ==
    /\ pc = "m_save1"
    /\ SaveStaging(st)
    /\ pc' = "m_save2"
    /\ UNCHANGED <<others, dlArgs, run, prevEnd, guard, result, exitCode, reported, registry,
                   existing, partial, st, w, lock, sw, hist, tempFile, stateFile, outFile>>

MSaveRename ==
    /\ pc = "m_save2"
    /\ SaveRename
    /\ pc' = "m_spawn"
    /\ UNCHANGED <<others, dlArgs, run, prevEnd, guard, result, exitCode, reported, registry,
                   existing, partial, st, w, lock, sw, hist, tempFile, outFile>>

\* Lines 394-415: one work item per part that is not complete.
WorkItem(entry) ==
    LET len == PartLen(entry)
        downloaded == Min(entry.downloaded, len)
    IN  IF downloaded >= len THEN IdleWorker
        ELSE [IdleWorker EXCEPT !.pc = "spawned", !.start = entry.start,
                                !.end = entry.end, !.downloaded = downloaded]

\* Lines 417-439: return at once when nothing is left, else spawn the workers.
MSpawn ==
    /\ pc = "m_spawn"
    /\ LET items == [i \in 1..Len(st.parts) |-> WorkItem(st.parts[i])]
       IN  IF \A i \in 1..Len(items) : items[i].pc = "idle"
           THEN /\ pc' = "fin_remove"
                /\ hist' = [hist EXCEPT !.finalizeStarted = TRUE]
                /\ UNCHANGED w
           ELSE /\ pc' = "join"
                /\ w' = items
                /\ UNCHANGED hist
    /\ UNCHANGED <<others, dlArgs, run, prevEnd, guard, result, exitCode, reported, registry,
                   existing, partial, st, lock, sw, disk>>

\* The bytes a BufWriter hands to the file when `flushed` of its pending and
\* new bytes go out: they are the oldest ones, written where the file cursor is.
Flushed(f, fileNext, srvNext, buf, flushed) ==
    IF flushed > 0
    THEN WriteAt(f, fileNext - buf, BodyBytes(srvNext - buf, flushed))
    ELSE f

\* A worker that seeks to the start of its part whatever it has already.
WRequestSeeksToStart(i) ==
    /\ pc = "join"
    /\ w[i].pc = "spawned"
    /\ \E status \in {"206", "200", "error", "panic"} :
         IF status = "206"
         THEN LET part_length == saturating_add(saturating_sub(w[i].end, w[i].start), 1)
                  local == Min(w[i].downloaded, part_length)
                  remaining == saturating_sub(part_length, local)
              IN  /\ w' = [w EXCEPT ![i].local = local,
                                    ![i].remaining = remaining,
                                    ![i].last = local,
                                    ![i].srvNext = saturating_add(w[i].start, w[i].downloaded),
                                    ![i].fileNext = w[i].start,
                                    ![i].pc = IF remaining > 0 THEN "recv" ELSE "flush"]
                  /\ tempFile' = OpenCreate(tempFile)
         ELSE /\ w' = [w EXCEPT ![i].pc = "done",
                                ![i].res = IF status = "panic" THEN "panic" ELSE "err"]
              /\ UNCHANGED tempFile
    /\ UNCHANGED <<others, dlArgs, run, prevEnd, pc, guard, result, exitCode, reported, registry,
                   existing, partial, st, lock, sw, hist, stateFile, stagingFile, outFile>>

\* Worker, lines 447-482: the range request, then open and seek.
WRequest(i) ==
    /\ pc = "join"
    /\ w[i].pc = "spawned"
    /\ \E status \in {"206", "200", "error", "panic"} :
         IF status = "206"
         THEN LET part_length == saturating_add(saturating_sub(w[i].end, w[i].start), 1)
                  local == Min(w[i].downloaded, part_length)
                  remaining == saturating_sub(part_length, local)
              IN  /\ w' = [w EXCEPT ![i].local = local,
                                    ![i].remaining = remaining,
                                    ![i].last = local,
                                    ![i].srvNext = saturating_add(w[i].start, w[i].downloaded),
                                    ![i].fileNext = saturating_add(w[i].start, local),
                                    ![i].pc = IF remaining > 0 THEN "recv" ELSE "flush"]
                  /\ tempFile' = OpenCreate(tempFile)
         ELSE /\ w' = [w EXCEPT ![i].pc = "done",
                                ![i].res = IF status = "panic" THEN "panic" ELSE "err"]
              /\ UNCHANGED tempFile
    /\ UNCHANGED <<others, dlArgs, run, prevEnd, pc, guard, result, exitCode, reported, registry,
                   existing, partial, st, lock, sw, hist, stateFile, stagingFile, outFile>>

\* A worker that records after every chunk it receives.
WReadRecordsEveryChunk(i) ==
    /\ pc = "join"
    /\ w[i].pc = "recv"
    /\ w[i].remaining > 0
    /\ \E k \in 1..Min(Min(w[i].remaining, ReadBuf), w[i].end + 1 - w[i].srvNext) :
         LET bw == BufWrite(w[i].buf, k)
             local == w[i].local + k
             remaining == w[i].remaining - k
         IN  /\ tempFile' = Flushed(tempFile, w[i].fileNext, w[i].srvNext, w[i].buf,
                                    bw.flushed)
             /\ w' = [w EXCEPT ![i].local = local,
                               ![i].remaining = remaining,
                               ![i].buf = bw.pending,
                               ![i].srvNext = @ + k,
                               ![i].fileNext = @ + k,
                               ![i].pc = "lock"]
    /\ UNCHANGED <<others, dlArgs, run, prevEnd, pc, guard, result, exitCode, reported, registry,
                   existing, partial, st, lock, sw, hist, stateFile, stagingFile, outFile>>

\* Lines 484-508 up to the threshold test: one read and write_all.
WRead(i) ==
    /\ pc = "join"
    /\ w[i].pc = "recv"
    /\ w[i].remaining > 0
    /\ \E k \in 1..Min(Min(w[i].remaining, ReadBuf), w[i].end + 1 - w[i].srvNext) :
         LET bw == BufWrite(w[i].buf, k)
             local == w[i].local + k
             remaining == w[i].remaining - k
         IN  /\ tempFile' = Flushed(tempFile, w[i].fileNext, w[i].srvNext, w[i].buf,
                                    bw.flushed)
             /\ w' = [w EXCEPT ![i].local = local,
                               ![i].remaining = remaining,
                               ![i].buf = bw.pending,
                               ![i].srvNext = @ + k,
                               ![i].fileNext = @ + k,
                               ![i].pc = IF saturating_sub(local, w[i].last) >= Threshold
                                         THEN "lock"
                                         ELSE IF remaining > 0 THEN "recv" ELSE "flush"]
    /\ UNCHANGED <<others, dlArgs, run, prevEnd, pc, guard, result, exitCode, reported, registry,
                   existing, partial, st, lock, sw, hist, stateFile, stagingFile, outFile>>

\* A worker that records the bytes it received in this run, not the bytes of
\* its part that are present.
WLockRecordsRunBytes(i) ==
    /\ pc = "join"
    /\ w[i].pc \in {"lock", "lockf"}
    /\ lock = 0
    /\ lock' = i
    /\ st' = set_downloaded(st, i - 1, w[i].local - w[i].downloaded)
    /\ SaveStaging(st')
    /\ w' = [w EXCEPT ![i].pc = IF w[i].pc = "lock" THEN "rename" ELSE "renamef"]
    /\ UNCHANGED <<others, dlArgs, run, prevEnd, pc, guard, result, exitCode, reported, registry,
                   existing, partial, sw, hist, tempFile, stateFile, outFile>>

\* A worker that records without waiting for the mutex.
WLockWithoutMutex(i) ==
    /\ pc = "join"
    /\ w[i].pc \in {"lock", "lockf"}
    /\ lock' = i
    /\ st' = set_downloaded(st, i - 1, w[i].local)
    /\ SaveStaging(st')
    /\ w' = [w EXCEPT ![i].pc = IF w[i].pc = "lock" THEN "rename" ELSE "renamef"]
    /\ UNCHANGED <<others, dlArgs, run, prevEnd, pc, guard, result, exitCode, reported, registry,
                   existing, partial, sw, hist, tempFile, stateFile, outFile>>

\* Lines 503-505 and 513-515: take the mutex, record, write the staging file.
WLock(i) ==
    /\ pc = "join"
    /\ w[i].pc \in {"lock", "lockf"}
    /\ lock = 0
    /\ lock' = i
    /\ st' = set_downloaded(st, i - 1, w[i].local)
    /\ SaveStaging(st')
    /\ w' = [w EXCEPT ![i].pc = IF w[i].pc = "lock" THEN "rename" ELSE "renamef"]
    /\ UNCHANGED <<others, dlArgs, run, prevEnd, pc, guard, result, exitCode, reported, registry,
                   existing, partial, sw, hist, tempFile, stateFile, outFile>>

\* The rename of save_partial_state and the release of the mutex; after the
\* final record (lines 518-526) the worker returns.
WRename(i) ==
    /\ pc = "join"
    /\ w[i].pc \in {"rename", "renamef"}
    /\ SaveRename
    /\ lock' = 0
    /\ w' = [w EXCEPT ![i].last = w[i].local,
                      ![i].pc = IF w[i].pc = "renamef" THEN "done"
                                ELSE IF w[i].remaining > 0 THEN "recv" ELSE "flush",
                      ![i].res = IF w[i].pc = "renamef"
                                 THEN (IF w[i].remaining > 0 THEN "err" ELSE "ok")
                                 ELSE @]
    /\ UNCHANGED <<others, dlArgs, run, prevEnd, pc, guard, result, exitCode, reported, registry,
                   existing, partial, st, sw, hist, tempFile, outFile>>

\* Lines 489-491: the body ends (read returns 0) while bytes remain.
WEof(i) ==
    /\ pc = "join"
    /\ w[i].pc = "recv"
    /\ w[i].remaining > 0
    /\ w' = [w EXCEPT ![i].pc = "flush", ![i].eof = TRUE]
    /\ UNCHANGED <<others, dlArgs, run, prevEnd, pc, guard, result, exitCode, reported, registry,
                   existing, partial, st, lock, sw, hist, disk>>

\* Line 488: the read fails; the worker returns and its BufWriter is dropped,
\* which writes out what is pending.
WReadErr(i) ==
    /\ pc = "join"
    /\ w[i].pc = "recv"
    /\ w[i].remaining > 0
    /\ tempFile' = Flushed(tempFile, w[i].fileNext, w[i].srvNext, w[i].buf, w[i].buf)
    /\ w' = [w EXCEPT ![i].pc = "done", ![i].res = "err", ![i].buf = 0]
    /\ UNCHANGED <<others, dlArgs, run, prevEnd, pc, guard, result, exitCode, reported, registry,
                   existing, partial, st, lock, sw, hist, stateFile, stagingFile, outFile>>

\* A worker that reports success when it has nothing new to record.
WFlushForgetsRemaining(i) ==
    /\ pc = "join"
    /\ w[i].pc = "flush"
    /\ tempFile' = Flushed(tempFile, w[i].fileNext, w[i].srvNext, w[i].buf, w[i].buf)
    /\ w' = [w EXCEPT ![i].buf = 0,
                      ![i].pc = IF w[i].local > w[i].last THEN "lockf" ELSE "done",
                      ![i].res = IF w[i].local > w[i].last THEN @ ELSE "ok"]
    /\ UNCHANGED <<others, dlArgs, run, prevEnd, pc, guard, result, exitCode, reported, registry,
                   existing, partial, st, lock, sw, hist, stateFile, stagingFile, outFile>>

\* Lines 510-526: flush, then the final record if there is something new.
WFlush(i) ==
    /\ pc = "join"
    /\ w[i].pc = "flush"
    /\ tempFile' = Flushed(tempFile, w[i].fileNext, w[i].srvNext, w[i].buf, w[i].buf)
    /\ w' = [w EXCEPT ![i].buf = 0,
                      ![i].pc = IF w[i].local > w[i].last THEN "lockf" ELSE "done",
                      ![i].res = IF w[i].local > w[i].last THEN @
                                 ELSE IF w[i].remaining > 0 THEN "err" ELSE "ok"]
    /\ UNCHANGED <<others, dlArgs, run, prevEnd, pc, guard, result, exitCode, reported, registry,
                   existing, partial, st, lock, sw, hist, stateFile, stagingFile, outFile>>

\* Any worker takes a step.
SomeWRequest == \E i \in DOMAIN w : WRequest(i)
SomeWRead == \E i \in DOMAIN w : WRead(i)
SomeWLock == \E i \in DOMAIN w : WLock(i)
SomeWRename == \E i \in DOMAIN w : WRename(i)
SomeWEof == \E i \in DOMAIN w : WEof(i)
SomeWReadErr == \E i \in DOMAIN w : WReadErr(i)
SomeWFlush == \E i \in DOMAIN w : WFlush(i)

\* A join that looks at the first worker only (what C4 rules out).
FirstWorkerFailed == w # <<>> /\ w[1].res \in {"err", "panic"}

WorkerFailed == \E i \in DOMAIN w : w[i].res \in {"err", "panic"}

\* A join loop outside a scope: it returns at the first handle that yields an
\* error, whatever the workers behind it are doing.
MJoinReturnsAtFirstError ==
    /\ pc = "join"
    /\ \/ /\ \E i \in DOMAIN w :
               /\ w[i].pc = "done" /\ w[i].res \in {"err", "panic"}
               /\ \A j \in 1..(i - 1) : w[j].pc \in {"idle", "done"}
          /\ pc' = "ret_err"
          /\ UNCHANGED hist
       \/ /\ \A i \in DOMAIN w : w[i].pc \in {"idle", "done"}
          /\ ~WorkerFailed
          /\ pc' = "fin_remove"
          /\ hist' = [hist EXCEPT !.finalizeStarted = TRUE]
    /\ UNCHANGED <<others, dlArgs, run, prevEnd, guard, result, exitCode, reported, registry,
                   existing, partial, st, w, lock, sw, disk>>

\* Lines 530-559 and 642-646: the scope ends when every worker has ended; an
\* error or a panic of a worker is returned, else finalize follows.
MJoin ==
    /\ pc = "join"
    /\ \A i \in DOMAIN w : w[i].pc \in {"idle", "done"}
    /\ IF WorkerFailed
       THEN /\ pc' = "ret_err"
            /\ UNCHANGED hist
       ELSE /\ pc' = "fin_remove"
            /\ hist' = [hist EXCEPT !.finalizeStarted = TRUE]
    /\ UNCHANGED <<others, dlArgs, run, prevEnd, guard, result, exitCode, reported, registry,
                   existing, partial, st, w, lock, sw, disk>>


\* Single stream, lines 647-650: a state file is of no use here.
GClear ==
    /\ pc = "g_clear"
    /\ ClearPartialState
    /\ partial' = NoPartial
    /\ pc' = "g_request"
    /\ UNCHANGED <<others, dlArgs, run, prevEnd, guard, result, exitCode, reported, registry,
                   existing, st, w, lock, sw, hist, tempFile, outFile>>

\* Lines 655-664: the request, with a Range header when resuming.  The server
\* answers 206 from `existing`, 200 with the whole body, or an error (416 when
\* the range starts at or after the end).
Ranged == acceptRanges /\ existing > 0

GRequest ==
    /\ pc = "g_request"
    /\ \E status \in {"206", "200", "error"} :
         /\ status = "206" => Ranged /\ existing < srvSize
         /\ CASE status = "error" ->
                   /\ pc' = "ret_err"
                   /\ UNCHANGED <<sw, existing>>
              [] status = "206" ->
                   /\ pc' = "g_open"
                   /\ sw' = [NoWriter EXCEPT !.srvNext = existing]
                   /\ UNCHANGED existing
              [] status = "200" ->
                   /\ pc' = IF Ranged THEN "g_restart" ELSE "g_open"
                   /\ existing' = IF Ranged THEN 0 ELSE existing
                   /\ sw' = NoWriter
         /\ hist' = [hist EXCEPT !.restarted = (status = "200" /\ Ranged)]
    /\ UNCHANGED <<others, dlArgs, run, prevEnd, guard, result, exitCode, reported, registry,
                   partial, st, w, lock, disk>>

\* A restart that leaves the old temp file where it is.
GRestartKeepsTemp ==
    /\ pc = "g_restart"
    /\ pc' = "g_restart2"
    /\ UNCHANGED <<others, dlArgs, run, prevEnd, guard, result, exitCode, reported, registry,
                   existing, partial, st, w, lock, sw, hist, disk>>

\* Lines 664-673: the range was not honoured: start again from byte 0.
GRestartRemove ==
    /\ pc = "g_restart"
    /\ tempFile' = NoFile
    /\ pc' = "g_restart2"
    /\ UNCHANGED <<others, dlArgs, run, prevEnd, guard, result, exitCode, reported, registry,
                   existing, partial, st, w, lock, sw, hist, stateFile, stagingFile,
                   outFile>>

GRestartClear ==
    /\ pc = "g_restart2"
    /\ ClearPartialState
    /\ \E ok \in BOOLEAN : pc' = IF ok THEN "g_open" ELSE "ret_err"
    /\ UNCHANGED <<others, dlArgs, run, prevEnd, guard, result, exitCode, reported, registry,
                   existing, partial, st, w, lock, sw, hist, tempFile, outFile>>

\* Lines 675-682: open (create) the temp file and seek to `existing`.
GOpen ==
    /\ pc = "g_open"
    /\ tempFile' = OpenCreate(tempFile)
    /\ sw' = [sw EXCEPT !.fileNext = existing, !.buf = 0]
    /\ pc' = "g_stream"
    /\ UNCHANGED <<others, dlArgs, run, prevEnd, guard, result, exitCode, reported, registry,
                   existing, partial, st, w, lock, hist, stateFile, stagingFile, outFile>>

\* stream_to_writer: one read and write_all.
GRead ==
    /\ pc = "g_stream"
    /\ \E k \in 1..Min(ReadBuf, srvSize - sw.srvNext) :
         LET bw == BufWrite(sw.buf, k)
         IN  /\ tempFile' = Flushed(tempFile, sw.fileNext, sw.srvNext, sw.buf, bw.flushed)
             /\ sw' = [srvNext |-> sw.srvNext + k, fileNext |-> sw.fileNext + k,
                       buf |-> bw.pending]
    /\ UNCHANGED <<others, dlArgs, run, prevEnd, pc, guard, result, exitCode, reported, registry,
                   existing, partial, st, w, lock, hist, stateFile, stagingFile, outFile>>

\* read returns 0: the end of the body, or a connection that closed early.
GEof ==
    /\ pc = "g_stream"
    /\ pc' = "g_flush"
    /\ UNCHANGED <<others, dlArgs, run, prevEnd, guard, result, exitCode, reported, registry,
                   existing, partial, st, w, lock, sw, hist, disk>>

\* The read fails: the error is returned and the dropped BufWriter writes out
\* what is pending.
GReadErr ==
    /\ pc = "g_stream"
    /\ sw.srvNext < srvSize
    /\ tempFile' = Flushed(tempFile, sw.fileNext, sw.srvNext, sw.buf, sw.buf)
    /\ sw' = [sw EXCEPT !.buf = 0]
    /\ pc' = "ret_err"
    /\ UNCHANGED <<others, dlArgs, run, prevEnd, guard, result, exitCode, reported, registry,
                   existing, partial, st, w, lock, hist, stateFile, stagingFile, outFile>>

\* writer.flush() at the end of stream_to_writer, then finalize.
GFlush ==
    /\ pc = "g_flush"
    /\ tempFile' = Flushed(tempFile, sw.fileNext, sw.srvNext, sw.buf, sw.buf)
    /\ sw' = [sw EXCEPT !.buf = 0]
    /\ pc' = "fin_remove"
    /\ hist' = [hist EXCEPT !.finalizeStarted = TRUE]
    /\ UNCHANGED <<others, dlArgs, run, prevEnd, guard, result, exitCode, reported, registry,
                   existing, partial, st, w, lock, stateFile, stagingFile, outFile>>

\* finalize_temp_file, lines 724-727: remove an existing output; a failure
\* is returned.
FinRemoveOld ==
    /\ pc = "fin_remove"
    /\ \E ok \in BOOLEAN :
         IF ~outFile.exists \/ ok
         THEN /\ outFile' = NoFile
              /\ pc' = "fin_rename"
              /\ UNCHANGED hist
         ELSE /\ pc' = "ret_err"
              /\ hist' = [hist EXCEPT !.removeFailed = TRUE]
              /\ UNCHANGED outFile
    /\ UNCHANGED <<others, dlArgs, run, prevEnd, guard, result, exitCode, reported, registry,
                   existing, partial, st, w, lock, sw, tempFile, stateFile,
                   stagingFile>>

\* Lines 728-733: rename the temp file onto the output; a failure is returned.
FinRename ==
    /\ pc = "fin_rename"
    /\ \E ok \in BOOLEAN :
         IF ok /\ tempFile.exists
         THEN /\ outFile' = tempFile
              /\ tempFile' = NoFile
              /\ hist' = [hist EXCEPT !.renamed = TRUE]
              /\ pc' = "fin_clear"
         ELSE /\ pc' = "ret_err"
              /\ hist' = [hist EXCEPT !.renameFailed = TRUE]
              /\ UNCHANGED <<outFile, tempFile>>
    /\ UNCHANGED <<others, dlArgs, run, prevEnd, guard, result, exitCode, reported, registry,
                   existing, partial, st, w, lock, sw, stateFile, stagingFile>>

\* Lines 734-749: untrack, clear the side-files, compare the size.
FinClear ==
    /\ pc = "fin_clear"
    /\ registry' = untrack_temp_file(registry, TempPath)
    /\ ClearPartialState
    /\ pc' = IF Total # None /\ FileLen(outFile) # Total THEN "ret_err" ELSE "ret_ok"
    /\ UNCHANGED <<others, dlArgs, run, prevEnd, guard, result, exitCode, reported, existing,
                   partial, st, w, lock, sw, hist, tempFile, outFile>>

\* download_file returns Ok: the guard is disarmed and then dropped.
DlReturnOk ==
    /\ pc = "ret_ok"
    /\ LET d == GuardDrop(FALSE, registry)
       IN  /\ registry' = d.left
           /\ reported' = d.printed
    /\ guard' = "disarmed"
    /\ result' = "ok"
    /\ exitCode' = 0
    /\ pc' = "done"
    /\ UNCHANGED <<others, dlArgs, run, prevEnd, existing, partial, st, w, lock, sw, hist, disk>>

\* download_file returns an error through `?`: the guard is dropped armed.
DlReturnErr ==
    /\ pc = "ret_err"
    /\ LET d == GuardDrop(guard = "armed", registry)
       IN  /\ registry' = d.left
           /\ reported' = d.printed
    /\ guard' = "dropped"
    /\ result' = "err"
    /\ exitCode' = 1
    /\ pc' = "done"
    /\ UNCHANGED <<others, dlArgs, run, prevEnd, existing, partial, st, w, lock, sw, hist, disk>>

Running == pc \notin {"start", "done", "dead"}

\* What is left of a process that ended without unwinding: the disk only.
ProcessGone ==
    /\ pc' = "dead"
    /\ guard' = "none"
    /\ existing' = 0
    /\ partial' = NoPartial
    /\ st' = EmptyState
    /\ w' = <<>>
    /\ lock' = 0
    /\ sw' = NoWriter
    /\ hist' = NoHist
    /\ prevEnd' = [how |-> "killed", temp |-> tempFile.exists, at |-> pc,
                   mode |-> hist.mode]
    /\ UNCHANGED <<others, dlArgs, run>>

\* The process is killed (SIGKILL, power loss): no handler, no destructor runs.
Kill ==
    /\ Running
    /\ ProcessGone
    /\ result' = "killed"
    /\ exitCode' = 137
    /\ registry' = {}
    /\ reported' = {}
    /\ UNCHANGED disk

\* Ctrl+C: the handler installed by install_signal_handler runs and exits.
Signal ==
    /\ Running
    /\ ProcessGone
    /\ result' = "cancelled"
    /\ LET h == SignalHandler(registry)
       IN  /\ registry' = h.left
           /\ reported' = h.printed
           /\ exitCode' = h.code
    /\ UNCHANGED disk

\* The user runs the same command again after a kill or a failure.
Rerun ==
    /\ \/ pc = "dead"
       \/ pc = "done" /\ result = "err"
    /\ run < MaxRuns
    /\ run' = run + 1
    /\ pc' = "start"
    /\ guard' = "none"
    /\ result' = "none"
    /\ exitCode' = None
    /\ reported' = {}
    /\ registry' = {}
    /\ existing' = 0
    /\ partial' = NoPartial
    /\ st' = EmptyState
    /\ w' = <<>>
    /\ lock' = 0
    /\ sw' = NoWriter
    /\ hist' = NoHist
    /\ prevEnd' = IF pc = "dead" THEN prevEnd
                  ELSE [how |-> "failed", temp |-> tempFile.exists, at |-> pc,
                        mode |-> hist.mode]
    /\ UNCHANGED <<others, dlArgs, disk>>

DlNext ==
    \/ DlStart
    \/ EmptyCreate \/ EmptyRemove \/ EmptyRename \/ EmptyClear
    \/ DlMismatchRemove \/ DlMismatchClear \/ DlResumeCheck
    \/ DlNoRangeRemove \/ DlNoRangeClear \/ DlBranch
    \/ MOpen \/ MSetLen \/ MSaveStaging \/ MSaveRename \/ MSpawn
    \/ SomeWRequest
    \/ SomeWRead
    \/ SomeWLock
    \/ SomeWRename
    \/ SomeWEof
    \/ SomeWReadErr
    \/ SomeWFlush
    \/ MJoin
    \/ GClear \/ GRequest \/ GRestartRemove \/ GRestartClear \/ GOpen
    \/ GRead \/ GEof \/ GReadErr \/ GFlush
    \/ FinRemoveOld \/ FinRename \/ FinClear
    \/ DlReturnOk \/ DlReturnErr
    \/ Kill \/ Signal \/ Rerun

NoOp == [op |-> "none", path |-> "", before |-> {}, armed |-> FALSE, result |-> {},
         disk |-> {}]
NoPlan == [done |-> FALSE, panicked |-> FALSE, parts |-> <<>>]

\* A component that is not exercised stands still.
PlanIdleInit == pTotal = 0 /\ pParts = 0 /\ pBuild = "release" /\ pPlan = NoPlan

RetryIdleInit ==
    /\ rMax = 0 /\ script = <<>> /\ rpc = "idle" /\ attempt = 0 /\ calls = 0
    /\ sleeps = <<>> /\ rResult = "none" /\ lastErr = <<>>

CleanIdleInit == cDisk = {} /\ cLast = NoOp

NoResp == [kind |-> "error", status |-> 0, length |-> None, ranges |-> FALSE, cr |-> <<>>]
NoPersisted == [state |-> NoStateFile, tempLen |-> 0]
NoProbe == [ok |-> FALSE, length |-> None, accept_ranges |-> FALSE]
NoSel == [stage |-> "idle", probe |-> NoProbe, mode |-> "none", discarded |-> FALSE,
          state |-> EmptyState, workers |-> <<>>]
NoStateOp == [op |-> "none", fresh |-> FALSE, loaded |-> NoPartial]

SelIdleInit ==
    /\ hdResp = NoResp /\ gtResp = NoResp /\ reqConn = 1 /\ persisted = NoPersisted
    /\ sel = NoSel

StateIdleInit == ps = EmptyState /\ psFile = NoStateFile /\ psLast = NoStateOp

NoPath == [parent |-> "", name |-> <<>>]
NoCall == [strategy |-> "Overwrite", listing |-> "file", recursive |-> FALSE,
           probe |-> "head", base |-> NoPath, stage |-> "idle", output |-> NoPath,
           skipped |-> FALSE, result |-> "none", requests |-> {}, before |-> {},
           created |-> {}, tracked |-> {}]

TargetIdleInit == tDisk = {} /\ tCall = NoCall

NoSave == [pc |-> "idle", state |-> EmptyState, before |-> NoStateFile, calls |-> 0,
           writeFailed |-> FALSE, renameFailed |-> FALSE]
SaveIdleInit == svFile = NoStateFile /\ svStaging = NoStateFile /\ svCall = NoSave /\ svDone = {}
NoMain == [pc |-> "idle", shown |-> 0]
ActiveIdleInit == acCount = 0 /\ acW = <<>> /\ acMain = NoMain
ClassIdleInit == ceChain = <<>> /\ ceVerdict = "none"
LateIdleInit == SaveIdleInit /\ ActiveIdleInit /\ ClassIdleInit

MoreIdleInit == SelIdleInit /\ StateIdleInit /\ TargetIdleInit /\ LateIdleInit

DlIdleInit ==
    /\ srvSize = 0 /\ lengthKnown = FALSE /\ acceptRanges = FALSE /\ connections = 1
    /\ leftover = "none" /\ run = 1 /\ prevEnd = NoEnd
    /\ FreshProcess
    /\ tempFile = NoFile /\ stateFile = NoStateFile /\ stagingFile = NoStateFile
    /\ outFile = NoFile

Init == DlInit /\ PlanIdleInit /\ RetryIdleInit /\ CleanIdleInit /\ MoreIdleInit

Next == DlNext

\* The download of one file, killed and run again.
Spec == Init /\ [][Next]_vars

----------------------------------------------------------------------------
\* The range planner on its own: every total of the (narrow) u64, every part
\* count, both build profiles.

PlanInit ==
    /\ pTotal \in 0..(U64 - 1)
    /\ pParts \in 0..MaxParts
    /\ pBuild \in {"debug", "release"}
    /\ pPlan = NoPlan
    /\ DlIdleInit /\ RetryIdleInit /\ CleanIdleInit /\ MoreIdleInit

\* A call of build_range_plan: a debug build panics on overflow, a release
\* build wraps.
PlanCall ==
    /\ ~pPlan.done
    /\ pPlan' = IF pBuild = "debug" /\ plan_overflows(pTotal, pParts)
                THEN [done |-> TRUE, panicked |-> TRUE, parts |-> <<>>]
                ELSE [done |-> TRUE, panicked |-> FALSE,
                      parts |-> build_range_plan(pTotal, pParts)]
    /\ UNCHANGED <<pTotal, pParts, pBuild, dlVars, retryVars, cleanVars, moreVars>>

PlanNext == PlanCall

SpecPlan == PlanInit /\ [][PlanNext]_vars

\* Ordered, disjoint, contiguous, non-empty parts covering [0, total - 1].
IsCover(parts, total) ==
    /\ Len(parts) >= 1
    /\ parts[1].start = 0
    /\ parts[Len(parts)].end = total - 1
    /\ \A i \in 1..Len(parts) : parts[i].start <= parts[i].end
    /\ \A i \in 2..Len(parts) : parts[i].start = parts[i - 1].end + 1

\* C5: for total > 0 and P >= 1 build_range_plan returns ordered, disjoint,
\* contiguous, non-empty parts from 0 to total - 1; for P = 0 the empty list;
\* for P > total exactly total single-byte parts.
C5_PlanCovers ==
    pPlan.done =>
        /\ ~pPlan.panicked
        /\ pParts = 0 => pPlan.parts = <<>>
        /\ (pTotal > 0 /\ pParts >= 1) => IsCover(pPlan.parts, pTotal)
        /\ (pTotal > 0 /\ pParts > pTotal) =>
              /\ Len(pPlan.parts) = pTotal
              /\ \A i \in 1..Len(pPlan.parts) : pPlan.parts[i].start = pPlan.parts[i].end

\* The same, for the inputs whose chunk-size sum total + P fits the u64.
PlanCoversWithoutOverflow ==
    (pPlan.done /\ pTotal + pParts < U64) =>
        /\ ~pPlan.panicked
        /\ pParts = 0 => pPlan.parts = <<>>
        /\ (pTotal > 0 /\ pParts >= 1) => IsCover(pPlan.parts, pTotal)
        /\ (pTotal > 0 /\ pParts > pTotal) =>
              /\ Len(pPlan.parts) = pTotal
              /\ \A i \in 1..Len(pPlan.parts) : pPlan.parts[i].start = pPlan.parts[i].end

----------------------------------------------------------------------------
\* The retry wrapper (retry.rs) around the upload attempt (upload.rs).

\* One cause of an anyhow error chain: a message or context, a reqwest error,
\* or an io error.
Msg == [type |-> "msg", timeout |-> FALSE, connect |-> FALSE, body |-> FALSE,
        status |-> None, io |-> "none"]
ReqwestError(timeout, connect, body, status) ==
    [type |-> "reqwest", timeout |-> timeout, connect |-> connect, body |-> body,
     status |-> status, io |-> "none"]
IoError(kind) == [Msg EXCEPT !.type = "io", !.io = kind]

RetryableIo == {"TimedOut", "ConnectionReset", "ConnectionAborted", "BrokenPipe",
                "UnexpectedEof", "WouldBlock", "Interrupted"}

is_server_error(status) == status >= 500 /\ status <= 599
is_success(status) == status >= 200 /\ status <= 299

\* A classification that takes any transient cause in the chain, whatever
\* stands before it.
RetryableAnyCause(chain, i) ==
    \E j \in i..Len(chain) :
       \/ chain[j].type = "reqwest" /\ (chain[j].timeout \/ chain[j].connect \/ chain[j].body)
       \/ chain[j].type = "reqwest" /\ chain[j].status # None
          /\ (is_server_error(chain[j].status) \/ chain[j].status \in {408, 429})
       \/ chain[j].type = "io" /\ chain[j].io \in RetryableIo

RECURSIVE RetryableFrom(_, _)
RetryableFrom(chain, i) ==
    IF i > Len(chain) THEN FALSE
    ELSE LET cause == chain[i]
         IN  IF cause.type = "reqwest" /\ (cause.timeout \/ cause.connect \/ cause.body)
             THEN TRUE
             ELSE IF cause.type = "reqwest" /\ cause.status # None
             THEN is_server_error(cause.status) \/ cause.status = 429
                  \/ cause.status = 408
             ELSE IF cause.type = "io" /\ cause.io \in RetryableIo
             THEN TRUE
             ELSE RetryableFrom(chain, i + 1)

\* is_retryable_error: walks err.chain() from the outermost cause.
is_retryable_error(err) == RetryableFrom(err, 1)

\* What the server (or the local file) does to one upload attempt.
Responses == {"s200_success", "s200_failed", "s200_garbled", "s404", "s408", "s429",
              "s503", "connect", "timeout", "open_fail"}

StatusOf(r) ==
    CASE r \in {"s200_success", "s200_failed", "s200_garbled"} -> 200
      [] r = "s404" -> 404
      [] r = "s408" -> 408
      [] r = "s429" -> 429
      [] r = "s503" -> 503
      [] OTHER -> None

OkResult == [ok |-> TRUE, err |-> <<>>]
ErrResult(chain) == [ok |-> FALSE, err |-> chain]

\* execute_request: a transport error keeps the reqwest error under a context;
\* a non-2xx status becomes a plain message built with anyhow!.
execute_request(r) ==
    IF r = "connect" THEN ErrResult(<<Msg, ReqwestError(FALSE, TRUE, FALSE, None)>>)
    ELSE IF r = "timeout" THEN ErrResult(<<Msg, ReqwestError(TRUE, FALSE, FALSE, None)>>)
    ELSE IF is_success(StatusOf(r)) THEN OkResult
    ELSE ErrResult(<<Msg>>)

\* perform_upload_attempt: open the file, send, decode the JSON answer.
perform_upload_attempt(r) ==
    IF r = "open_fail" THEN ErrResult(<<Msg, IoError("NotFound")>>)
    ELSE LET sent == execute_request(r)
         IN  IF ~sent.ok THEN sent
             ELSE IF r = "s200_garbled"
             THEN ErrResult(<<Msg, ReqwestError(FALSE, FALSE, FALSE, None)>>)
             ELSE IF r = "s200_failed" THEN ErrResult(<<Msg>>)
             ELSE OkResult

\* A backoff that doubles without the cap.
UncappedDelay(att) == 2 ^ saturating_sub(att, 1)

\* retry_delay, in seconds.
retry_delay(att) == 2 ^ Min(saturating_sub(att, 1), 3)

\* A loop that forgets the attempt limit (what C6 rules out).
GivesUpOnTerminalOnly(att, attempts, err) == ~is_retryable_error(err)

\* A loop that retries every error until the attempts are used up.
GivesUpWhenExhaustedOnly(att, attempts, err) == att = attempts

\* retry.rs line 16: the error is returned without another attempt.
RetryGivesUp(att, attempts, err) == att = attempts \/ ~is_retryable_error(err)

Attempts == Max(rMax, 1)

RetryInit ==
    /\ rMax \in 0..MaxAttempts
    /\ script \in [1..Max(MaxN, 1) -> Responses]
    /\ rpc = "call"
    /\ attempt = 1
    /\ calls = 0
    /\ sleeps = <<>>
    /\ rResult = "none"
    /\ lastErr = <<>>
    /\ DlIdleInit /\ PlanIdleInit /\ CleanIdleInit /\ MoreIdleInit

\* The answer to the n-th call: the scripted answers repeat after the last.
Scripted(n) == script[((n - 1) % Max(MaxN, 1)) + 1]

\* One pass of the loop of retry up to the sleep: func() and the match.
RetryCall ==
    /\ rpc = "call"
    /\ calls' = calls + 1
    /\ LET r == perform_upload_attempt(Scripted(calls + 1))
       IN  IF r.ok
           THEN /\ rpc' = "done"
                /\ rResult' = "ok"
                /\ UNCHANGED lastErr
           ELSE /\ lastErr' = r.err
                /\ IF RetryGivesUp(attempt, Attempts, r.err)
                   THEN rpc' = "done" /\ rResult' = "err"
                   ELSE rpc' = "sleep" /\ UNCHANGED rResult
    /\ UNCHANGED <<rMax, script, attempt, sleeps, dlVars, planVars, cleanVars, moreVars>>

\* thread::sleep(delay), then the next iteration of `for attempt in 1..=attempts`;
\* past the last one the loop falls through to unreachable!().
RetrySleep ==
    /\ rpc = "sleep"
    /\ sleeps' = Append(sleeps, [delay |-> retry_delay(attempt), after |-> calls])
    /\ attempt' = attempt + 1
    /\ rpc' = IF attempt + 1 <= Attempts THEN "call" ELSE "unreachable"
    /\ UNCHANGED <<rMax, script, calls, rResult, lastErr, dlVars, planVars, cleanVars,
                   moreVars>>

RetryNext == RetryCall \/ RetrySleep

SpecRetry == RetryInit /\ [][RetryNext]_vars

\* C6: retry invokes f at most max(1, N) times, and no sleep follows the
\* final invocation: every sleep is followed by another invocation, so a
\* sleep never comes after the max(1, N)-th call, and once retry has returned
\* every sleep lies before the last call.
C6_RetryBound ==
    /\ calls <= Max(1, rMax)
    /\ rpc # "unreachable"
    /\ \A i \in 1..Len(sleeps) : sleeps[i].after < Max(1, rMax)
    /\ rpc = "done" => \A i \in 1..Len(sleeps) : sleeps[i].after < calls

\* C6 witness: retry has used up all of N >= 2 attempts, sleeping in between.
C6_Witness ==
    /\ rpc = "done"
    /\ rMax >= 2
    /\ calls = rMax
    /\ rResult = "err"
    /\ Len(sleeps) = rMax - 1

\* C7: with maxRetries = 3 and the server answering 503, 503, 200 (success)
\* the upload performs three attempts and succeeds.
C7_Retries503 ==
    (rMax = 3 /\ rpc = "done" /\ script[1] = "s503" /\ script[2] = "s503"
     /\ script[3] = "s200_success")
        => (calls = 3 /\ rResult = "ok")

----------------------------------------------------------------------------
\* Properties of the download.

OutputIsServerFile == outFile.exists /\ outFile.data = ServerData

Succeeded == pc = "done" /\ result = "ok"

\* C1: resume correctness. A run on a clean directory was killed after its
\* temp file was created; whenever the next run with the same arguments
\* reports success, every byte of the output equals the server's byte.
C1_ResumeCorrect ==
    (/\ run >= 2
     /\ prevEnd.how = "killed"
     /\ prevEnd.temp
     /\ leftover = "none"
     /\ lengthKnown
     /\ srvSize > 0
     /\ Succeeded)
        => OutputIsServerFile

C3_TempAndStateAfterKill ==
    (/\ pc = "dead"
     /\ prevEnd.mode = "multi"
     /\ prevEnd.at \in {"m_setlen", "m_save1", "m_save2", "m_spawn", "join",
                        "fin_remove", "fin_rename"})
        => (tempFile.exists /\ stateFile.exists)

\* C4: no partial finalize on worker failure. In a multi-stream download in
\* which a worker has returned an error or panicked, finalize is not
\* executed: the temp file is not renamed, the output path is as it was when
\* the run started, and the run ends with an error.
C4_NoPartialFinalize ==
    (hist.mode = "multi" /\ \E i \in DOMAIN w : w[i].res \in {"err", "panic"})
        => /\ ~hist.finalizeStarted
           /\ ~hist.renamed
           /\ tempFile.exists
           /\ outFile = hist.outAtStart
           /\ pc \in {"join", "ret_err", "done"}
           /\ (pc = "done" => result = "err")

\* C4 witness: the run has returned an error after one worker finished its
\* part and another one failed.
C4_Witness ==
    /\ pc = "done"
    /\ result = "err"
    /\ hist.mode = "multi"
    /\ \E i \in DOMAIN w : w[i].res = "ok"
    /\ \E i \in DOMAIN w : w[i].res \in {"err", "panic"}

\* C9: when the cancellation signal arrives during a transfer, the handler
\* drains the registry, reports exactly the drained paths, ends the process
\* with exit code 130, and leaves every file on disk as it was: the temp file
\* and the state side-file of the download in flight are still there.
C9_SignalPreserves ==
    [][(result' = "cancelled" /\ result # "cancelled")
          => /\ registry' = {}
             /\ reported' = registry
             /\ exitCode' = 130
             /\ pc' = "dead"
             /\ disk' = disk]_vars

\* C9 witness: a multi-stream download was cancelled while its workers ran;
\* the temp file and the state file are on disk and the temp path was reported.
C9_Witness ==
    /\ result = "cancelled"
    /\ exitCode = 130
    /\ prevEnd.mode = "multi"
    /\ prevEnd.at = "join"
    /\ reported = {TempPath}
    /\ tempFile.exists
    /\ stateFile.exists

----------------------------------------------------------------------------
\* The registry and the guard on their own (cleanup.rs): any registry, any
\* set of files on disk, the operations in any order.

Paths == {TempPath} \cup {ToString(i) : i \in 2..NumPaths}

CleanInit ==
    /\ registry \in SUBSET Paths
    /\ cDisk \in SUBSET Paths
    /\ cLast = NoOp
    /\ guard = "none"
    /\ reported = {}
    /\ srvSize = 0 /\ lengthKnown = FALSE /\ acceptRanges = FALSE /\ connections = 1
    /\ leftover = "none" /\ run = 1 /\ prevEnd = NoEnd
    /\ pc = "start" /\ result = "none" /\ exitCode = None
    /\ existing = 0 /\ partial = NoPartial /\ st = EmptyState /\ w = <<>>
    /\ lock = 0 /\ sw = NoWriter /\ hist = NoHist
    /\ tempFile = NoFile /\ stateFile = NoStateFile /\ stagingFile = NoStateFile
    /\ outFile = NoFile
    /\ PlanIdleInit /\ RetryIdleInit /\ MoreIdleInit

CleanFrame ==
    UNCHANGED <<dlArgs, run, prevEnd, pc, result, exitCode, existing, partial, st, w,
                lock, sw, hist, disk, planVars, retryVars, moreVars>>

Op(op, path, armed, printed) ==
    [op |-> op, path |-> path, before |-> registry, armed |-> armed,
     result |-> printed, disk |-> cDisk]

CTrack ==
    \E p \in Paths :
        /\ registry' = track_temp_file(registry, p)
        /\ cLast' = Op("track", p, FALSE, {})
        /\ UNCHANGED <<cDisk, guard, reported>>
        /\ CleanFrame

CUntrack ==
    \E p \in Paths :
        /\ registry' = untrack_temp_file(registry, p)
        /\ cLast' = Op("untrack", p, FALSE, {})
        /\ UNCHANGED <<cDisk, guard, reported>>
        /\ CleanFrame

CDrain ==
    LET d == drain_tracked_temp_files(registry)
    IN  /\ registry' = d.left
        /\ cLast' = Op("drain", "", FALSE, d.drained)
        /\ UNCHANGED <<cDisk, guard, reported>>
        /\ CleanFrame

\* TempCleanupGuard::new
CGuardNew ==
    /\ guard = "none"
    /\ guard' = "armed"
    /\ cLast' = Op("new", "", TRUE, {})
    /\ UNCHANGED <<cDisk, registry, reported>>
    /\ CleanFrame

\* TempCleanupGuard::disarm
CGuardDisarm ==
    /\ guard \in {"armed", "disarmed"}
    /\ guard' = "disarmed"
    /\ cLast' = Op("disarm", "", FALSE, {})
    /\ UNCHANGED <<cDisk, registry, reported>>
    /\ CleanFrame

\* The guard goes out of scope.
CGuardDrop ==
    /\ guard \in {"armed", "disarmed"}
    /\ LET d == GuardDrop(guard = "armed", registry)
       IN  /\ registry' = d.left
           /\ reported' = d.printed
           /\ cLast' = Op("drop", "", guard = "armed", d.printed)
    /\ guard' = "none"
    /\ UNCHANGED cDisk
    /\ CleanFrame

CleanNext == CTrack \/ CUntrack \/ CDrain \/ CGuardNew \/ CGuardDisarm \/ CGuardDrop

SpecCleanup == CleanInit /\ [][CleanNext]_vars

\* C8: cleanup guard contract. A guard dropped after disarm leaves the
\* registry as it was and reports nothing; a guard dropped armed leaves the
\* registry empty and reports every path it held; neither deletes a file.
C8_GuardContract ==
    cLast.op = "drop" =>
        /\ cLast.armed => (registry = {} /\ reported = cLast.before)
        /\ ~cLast.armed => (registry = cLast.before /\ reported = {})
        /\ cDisk = cLast.disk

\* C8 witness: an armed guard was dropped over a registry of several paths,
\* some of them files on disk.
C8_Witness ==
    /\ cLast.op = "drop"
    /\ cLast.armed
    /\ Cardinality(cLast.before) >= 2
    /\ cLast.before \cap cDisk # {}
    /\ reported = cLast.before

\* C10: the registry operations are strict set operations: track adds the
\* path, untrack removes only that path, drain returns exactly the tracked
\* paths and leaves the registry empty; none of them touches a file on disk.
C10_RegistrySetOps ==
    /\ cLast.op = "track" => registry = cLast.before \cup {cLast.path}
    /\ cLast.op = "untrack" => registry = cLast.before \ {cLast.path}
    /\ cLast.op = "drain" => (cLast.result = cLast.before /\ registry = {})
    /\ cLast.op \in {"track", "untrack", "drain"} => cDisk = cLast.disk

\* C10 witness: a tracked path whose file is on disk was removed from a
\* registry that held other paths too.
C10_Witness ==
    /\ cLast.op = "untrack"
    /\ cLast.path \in cLast.before
    /\ Cardinality(cLast.before) >= 2
    /\ cLast.path \in cDisk
    /\ registry # {}

----------------------------------------------------------------------------
\* One call of download_file up to the point where the transfer starts: the
\* probe, the choice of the transfer mode, the layout of the parts and the
\* workers to spawn (download.rs 144-233, 252-316, 562-651, 357-415).

\* probe_file.  A response is a transport error or a status with headers:
\* `length` is the parsed Content-Length (None when absent or not a number),
\* `cr` is <<>> without Content-Range, else <<total>> (None: no number after '/').
probe_file(head, get) ==
    IF head.kind = "resp" /\ is_success(head.status)
    THEN [ok |-> TRUE, length |-> head.length, accept_ranges |-> head.ranges]
    ELSE IF get.kind = "error"
    THEN [ok |-> FALSE, length |-> None, accept_ranges |-> FALSE]
    ELSE [ok |-> TRUE,
          length |-> IF get.cr # <<>> THEN get.cr[1] ELSE get.length,
          accept_ranges |-> get.status = 206]

\* Lines 216-217.
\* The clamp with a cap of one connection instead of sixteen.
CapOfOne(c) == Min(Max(c, 1), 1)

effective_connections(c) == Min(Max(c, 1), ConnCap)

\* Lines 218-219.
multi_supported(probe, eff) ==
    probe.length # None /\ probe.accept_ranges /\ eff > 1

\* Lines 626-636 and 357-359: the state the workers share.
MultiLayout(part, total, part_count) ==
    LET s0 == IF part.some THEN part.val ELSE NewState(total, part_count)
        s1 == ensure_layout([s0 EXCEPT !.total = total], total)
    IN  ensure_layout([s1 EXCEPT !.total = total, !.part_count = Max(@, 1)], total)

\* Lines 394-415: the parts that get a worker, in order.
WorkItems(state) ==
    SelectSeq([i \in 1..Len(state.parts) |->
                  [index |-> i - 1, start |-> state.parts[i].start,
                   end |-> state.parts[i].end,
                   downloaded |-> Min(state.parts[i].downloaded, PartLen(state.parts[i]))]],
              LAMBDA it : it.downloaded < PartLen(it))

\* download_file after the probe and download_to_single_file down to the branch.
Decide(probe, conn, found) ==
    IF ~probe.ok
    THEN [NoSel EXCEPT !.stage = "done", !.probe = probe, !.mode = "failed"]
    ELSE IF probe.length = 0
    THEN [NoSel EXCEPT !.stage = "done", !.probe = probe, !.mode = "empty"]
    ELSE
    LET total == probe.length
        eff == effective_connections(conn)
        partial0 == load_partial_state(found.state)
        mismatch == /\ partial0.some /\ partial0.val.total # None /\ total # None
                    /\ partial0.val.total # total
        partial1 == IF mismatch THEN NoPartial ELSE partial0
        existing1 == IF mismatch THEN 0 ELSE found.tempLen
        asis == /\ total # None /\ existing1 >= total /\ total > 0
                /\ (partial1.some => is_complete(partial1.val))
        norange == existing1 > 0 /\ ~probe.accept_ranges
        partial2 == IF norange THEN NoPartial ELSE partial1
        part_count == Max(eff, 1)
        multi == total # None /\ probe.accept_ranges /\ part_count > 1
        base == [NoSel EXCEPT !.stage = "done", !.probe = probe]
    IN  IF asis
        THEN [base EXCEPT !.mode = "asis", !.discarded = mismatch,
                          !.state = IF partial1.some THEN partial1.val ELSE EmptyState]
        ELSE IF multi
        THEN LET state == MultiLayout(partial2, total, part_count)
             IN  [base EXCEPT !.mode = "multi", !.discarded = mismatch \/ norange,
                              !.state = state, !.workers = WorkItems(state)]
        ELSE [base EXCEPT !.mode = "single",
                          !.discarded = mismatch \/ norange
                                        \/ (total # None /\ partial2.some)]

\* Lines 574-620 and 654-657: the offset of the Range header of the
\* single-stream request, 0 when the request carries none.
ResumeFrom(probe, found) ==
    LET total == probe.length
        partial0 == load_partial_state(found.state)
        mismatch == /\ partial0.some /\ partial0.val.total # None /\ total # None
                    /\ partial0.val.total # total
        existing1 == IF mismatch THEN 0 ELSE found.tempLen
        existing2 == IF total # None /\ ~(existing1 >= total /\ total > 0)
                        /\ existing1 > total
                     THEN total ELSE existing1
    IN  IF existing2 > 0 /\ ~probe.accept_ranges THEN 0 ELSE existing2

\* Sizes of the remote file: the small ones and one with more bytes than
\* the connection cap.
SelTotals == (0..MaxTotal) \cup {ConnCap + 1}

Resp(status, length, ranges, cr) ==
    [kind |-> "resp", status |-> status, length |-> length, ranges |-> ranges, cr |-> cr]

HeadResponses(t) ==
    {NoResp, Resp(404, None, FALSE, <<>>), Resp(200, t, TRUE, <<>>),
     Resp(200, t, FALSE, <<>>), Resp(200, None, TRUE, <<>>)}

GetResponses(t) ==
    {NoResp, Resp(206, 1, FALSE, <<t>>), Resp(206, 1, FALSE, <<None>>),
     Resp(200, t, FALSE, <<>>), Resp(200, None, FALSE, <<>>)}

RequestedConnections == {0, 1, 2, 3, ConnCap, ConnCap + 1, 255}

\* The states an earlier run can have persisted for a file of t bytes with k
\* connections: every part anywhere between untouched and complete.
Progressed(t, k) ==
    LET s0 == NewState(t, k)
        n == Len(s0.parts)
    IN  {[s0 EXCEPT !.parts = [i \in 1..n |-> [s0.parts[i] EXCEPT !.downloaded = d[i]]]] :
            d \in {f \in [1..n -> 0..t] : \A i \in 1..n : f[i] <= PartLen(s0.parts[i])}}

PersistedStates(t) ==
    IF t = 0 THEN {}
    ELSE IF t <= MaxTotal THEN UNION {Progressed(t, k) : k \in 1..(MaxConn + 1)}
    ELSE {NewState(t, k) : k \in {1, 2, ConnCap + 1}}

SelInit ==
    /\ \E t \in SelTotals :
          /\ hdResp \in HeadResponses(t)
          /\ gtResp \in GetResponses(t)
          /\ persisted \in {NoPersisted} \cup
                {[state |-> [exists |-> TRUE, val |-> to_json(x)], tempLen |-> t] :
                    x \in PersistedStates(t)} \cup
                {[state |-> [exists |-> TRUE, val |-> Garbled], tempLen |-> n] :
                    n \in {1, t} \ {0}}
    /\ reqConn \in RequestedConnections
    /\ sel = [NoSel EXCEPT !.stage = "start"]
    /\ StateIdleInit /\ TargetIdleInit /\ LateIdleInit
    /\ DlIdleInit /\ PlanIdleInit /\ RetryIdleInit /\ CleanIdleInit

\* Line 145: probe_file(client, &url)?
SelProbe ==
    /\ sel.stage = "start"
    /\ LET probe == probe_file(hdResp, gtResp)
       IN  sel' = IF probe.ok THEN [sel EXCEPT !.stage = "probed", !.probe = probe]
                  ELSE Decide(probe, reqConn, persisted)
    /\ UNCHANGED <<hdResp, gtResp, reqConn, persisted, stateVars, targetVars, lateVars,
                   dlVars, planVars, retryVars, cleanVars>>

\* Lines 206-233 and 562-651.
SelDecide ==
    /\ sel.stage = "probed"
    /\ sel' = Decide(sel.probe, reqConn, persisted)
    /\ UNCHANGED <<hdResp, gtResp, reqConn, persisted, stateVars, targetVars, lateVars,
                   dlVars, planVars, retryVars, cleanVars>>

SelNext == SelProbe \/ SelDecide

SpecSelect == SelInit /\ [][SelNext]_vars

\* C11: a failure of the probe (HEAD fails or is refused and the fallback GET
\* fails at the transport level) never fails the download: it goes on as an
\* unknown-length, single-stream download.
C11_ProbeFailureDegrades ==
    (/\ sel.stage = "done"
     /\ ~(hdResp.kind = "resp" /\ is_success(hdResp.status))
     /\ gtResp.kind = "error")
        => (sel.mode = "single" /\ sel.probe.length = None)

\* C12: whenever a single-stream or multi-stream run ends in failure, the
\* temp file it was writing is still at the temp path, with its state
\* side-file: no failing run has renamed the temp file away.
C12_FailureKeepsTemp ==
    (pc = "done" /\ result = "err" /\ hist.mode \in {"single", "multi"})
        => ~hist.renamed

\* The state in the side-file found at the temp path.
PersistedState == from_json(persisted.state.val)

\* A side-file for this very download: same total, ranges still supported.
ResumableFound ==
    /\ sel.stage = "done"
    /\ sel.probe.ok
    /\ sel.probe.accept_ranges
    /\ persisted.state.exists
    /\ sel.probe.length # None
    /\ PersistedState.total = sel.probe.length

\* C13: when a state side-file persisted with part count K exists for a
\* download with unchanged total and the run asks for a different connection
\* count C in 1..16 (C = 1 included), the run honors the persisted count: it
\* keeps the K persisted parts with their downloaded offsets and does not
\* discard the persisted state.
C13_HonorsPersistedCount ==
    (/\ ResumableFound
     /\ reqConn \in 1..ConnCap
     /\ reqConn # PersistedState.part_count)
        => /\ ~sel.discarded
           /\ sel.mode \in {"multi", "asis"}
           /\ sel.state.part_count = PersistedState.part_count
           /\ sel.state.parts = PersistedState.parts

\* The bytes the workers ask the server for: each asks for its part from
\* start + downloaded to end (lines 450-467).
RequestedBytes(items) ==
    SumTo([i \in 1..Len(items) |-> PartLen(items[i]) - items[i].downloaded], Len(items))

\* C14: on a multi-stream run resumed with the same arguments (same total,
\* same connection count in 2..16, any total > 0) the layout step keeps each
\* part's persisted downloaded value, the bytes requested are exactly the
\* bytes not yet recorded as downloaded, and no complete part is requested
\* again.
C14_ResumeFetchesRemainder ==
    (/\ ResumableFound
     /\ sel.mode = "multi"
     /\ reqConn \in 2..ConnCap
     /\ reqConn = PersistedState.part_count)
        => /\ sel.state.parts = PersistedState.parts
           /\ RequestedBytes(sel.workers)
                 = sel.probe.length - completed_bytes(PersistedState)
           /\ \A i \in 1..Len(sel.workers) :
                 LET e == PersistedState.parts[sel.workers[i].index + 1]
                 IN  e.downloaded < PartLen(e)

\* The same for the downloads whose range plan has as many parts as asked for.
ResumeFetchesRemainderOfFullPlan ==
    (/\ ResumableFound
     /\ sel.mode = "multi"
     /\ reqConn \in 2..ConnCap
     /\ reqConn = PersistedState.part_count
     /\ Len(build_range_plan(sel.probe.length, reqConn)) = reqConn)
        => /\ sel.state.parts = PersistedState.parts
           /\ RequestedBytes(sel.workers)
                 = sel.probe.length - completed_bytes(PersistedState)

----------------------------------------------------------------------------
\* PartialDownloadState on its own: new, ensure_layout, set_downloaded, and
\* the side-file written by save_partial_state and read by load_partial_state.

\* Totals: the small ones and the largest u64.
StateTotals == (1..MaxTotal) \cup {U64 - 1}

\* Values passed to set_downloaded.
Downloads == {0, 1, U64 - 1}

\* Part counts passed to new.
StateParts == 0..(MaxConn + 1)

StateInit ==
    /\ pTotal \in StateTotals
    /\ pParts \in StateParts
    /\ pBuild \in {"debug", "release"}
    /\ pPlan = NoPlan
    /\ ps = EmptyState
    /\ psFile = NoStateFile
    /\ psLast = NoStateOp
    /\ SelIdleInit /\ TargetIdleInit /\ LateIdleInit
    /\ DlIdleInit /\ RetryIdleInit /\ CleanIdleInit

StateFrame ==
    UNCHANGED <<pTotal, pParts, pBuild, pPlan, selVars, targetVars, lateVars, dlVars, retryVars,
                cleanVars>>

\* A debug build panics where the u64 arithmetic of the plan overflows.
PlanPanics(part_count) == pBuild = "debug" /\ plan_overflows(pTotal, part_count)

\* PartialDownloadState::new(Some(total), part_count)
SNew ==
    /\ psLast.op = "none"
    /\ \E known \in BOOLEAN :
          IF known /\ PlanPanics(Max(pParts, 1))
          THEN psLast' = [psLast EXCEPT !.op = "panic"] /\ UNCHANGED ps
          ELSE /\ ps' = NewState(IF known THEN pTotal ELSE None, pParts)
               /\ psLast' = [psLast EXCEPT !.op = "new", !.fresh = FALSE]
    /\ UNCHANGED psFile
    /\ StateFrame

Alive == psLast.op \notin {"none", "panic"}

\* state.total = Some(total); state.ensure_layout(total)  (lines 635-636)
SEnsureLayout ==
    /\ Alive
    /\ IF PlanPanics(Max(ps.part_count, 1))
       THEN psLast' = [psLast EXCEPT !.op = "panic"] /\ UNCHANGED ps
       ELSE /\ ps' = ensure_layout([ps EXCEPT !.total = pTotal], pTotal)
            /\ psLast' = [psLast EXCEPT !.op = "layout", !.fresh = FALSE]
    /\ UNCHANGED psFile
    /\ StateFrame

SSetDownloaded ==
    /\ Alive
    /\ \E index \in StateParts, downloaded \in Downloads :
          ps' = set_downloaded(ps, index, downloaded)
    /\ psLast' = [psLast EXCEPT !.op = "set", !.fresh = FALSE]
    /\ UNCHANGED psFile
    /\ StateFrame

\* save_partial_state: the staging file is written and renamed over the
\* side-file; when either call fails a warning is printed and the side-file
\* stays as it was.
SSave ==
    /\ Alive
    /\ \E io_ok \in BOOLEAN :
          IF io_ok
          THEN /\ psFile' = [exists |-> TRUE, val |-> to_json(ps)]
               /\ psLast' = [psLast EXCEPT !.op = "save", !.fresh = TRUE]
          ELSE /\ UNCHANGED psFile
               /\ psLast' = [psLast EXCEPT !.op = "save_failed"]
    /\ UNCHANGED ps
    /\ StateFrame

SLoad ==
    /\ Alive
    /\ psLast' = [psLast EXCEPT !.op = "load", !.loaded = load_partial_state(psFile)]
    /\ UNCHANGED <<ps, psFile>>
    /\ StateFrame

StateNext == SNew \/ SEnsureLayout \/ SSetDownloaded \/ SSave \/ SLoad

SpecState == StateInit /\ [][StateNext]_vars

\* The canonical range plan as parts without progress.
SamePlan(parts, plan) ==
    /\ Len(parts) = Len(plan)
    /\ \A i \in 1..Len(plan) :
          parts[i].start = plan[i].start /\ parts[i].end = plan[i].end

\* C15: for total > 0 and P >= 1 the state made by new(Some(total), P), and
\* the state after any ensure_layout(total), has parts.length = partCount and
\* its parts are exactly the canonical range plan for (total, partCount).
C15_LayoutInvariant ==
    (psLast.op \in {"new", "layout"} /\ ps.total # None /\ pParts >= 1)
        => /\ Len(ps.parts) = ps.part_count
           /\ SamePlan(ps.parts, build_range_plan(pTotal, ps.part_count))

\* C16: every state with a known total reached through new, ensure_layout
\* and set_downloaded has downloaded <= len on each part, completedBytes <=
\* total, and isComplete exactly when completedBytes = total.
C16_ProgressInvariant ==
    (Alive /\ ps.total # None)
        => /\ \A i \in 1..Len(ps.parts) : ps.parts[i].downloaded <= PartLen(ps.parts[i])
           /\ completed_bytes(ps) <= ps.total
           /\ is_complete(ps) <=> (completed_bytes(ps) = ps.total)

\* The same three facts where the range plan is computed without overflow.
ProgressInvariantWithoutOverflow ==
    (Alive /\ ps.total # None /\ ~plan_overflows(pTotal, Max(pParts, 1)))
        => /\ \A i \in 1..Len(ps.parts) : ps.parts[i].downloaded <= PartLen(ps.parts[i])
           /\ completed_bytes(ps) <= ps.total
           /\ is_complete(ps) <=> (completed_bytes(ps) = ps.total)

\* C17: a state saved with save_partial_state and then loaded with
\* load_partial_state from the same temp path is equal by value to the state
\* that was saved.
C17_SaveLoadRoundTrip ==
    (psLast.op = "load" /\ psLast.fresh)
        => psLast.loaded.some /\ psLast.loaded.val = ps

\* A state with two parts, one of them with progress in two digits, has been
\* saved and loaded.
C17_Witness ==
    /\ psLast.op = "load" /\ psLast.fresh
    /\ Len(ps.parts) >= 2
    /\ \E i \in 1..Len(ps.parts) : ps.parts[i].downloaded >= 10
    /\ psLast.loaded.val = ps

----------------------------------------------------------------------------
\* The condition under which the multi-stream downloader is to be used.  The
\* single-stream downloader is download_to_single_file's own transfer, or its
\* finalizing of a temp file that needs none.
MultiWanted ==
    /\ sel.probe.length # None /\ sel.probe.length > 0
    /\ sel.probe.accept_ranges
    /\ Min(Max(reqConn, 1), 16) > 1

ModeAsStated ==
    /\ (sel.mode = "multi") <=> MultiWanted
    /\ (sel.probe.length = 0) => (sel.mode = "empty")
    /\ (sel.probe.length # 0 /\ ~MultiWanted) => (sel.mode \in {"single", "asis"})

C19_WorkersCapped ==
    (sel.stage = "done" /\ sel.mode = "multi") => Len(sel.workers) <= ConnCap

\* The same bound where the state file found carries at most 16 parts.
WorkersCappedForOwnState ==
    (/\ sel.stage = "done" /\ sel.mode = "multi"
     /\ persisted.state.exists => PersistedState.part_count <= ConnCap)
        => Len(sel.workers) <= ConnCap

----------------------------------------------------------------------------
\* C20: the backoff slept after the k-th failed attempt (a retryable failure
\* that is not the last attempt) is exactly min(2^(k-1), 8) seconds:
\* 1, 2, 4, 8, 8, 8, ...
C20_BackoffSchedule ==
    \A i \in 1..Len(sleeps) :
        /\ sleeps[i].after = i
        /\ sleeps[i].delay = Min(2 ^ (i - 1), 8)

\* Five failed attempts have been slept after: 1, 2, 4, 8 and 8 seconds.
C20_Witness ==
    /\ Len(sleeps) >= 5
    /\ sleeps[4].delay = 8 /\ sleeps[5].delay = 8

----------------------------------------------------------------------------
\* The local target of a `download` command: the existing-file strategy, the
\* listing and file probes that precede it, and next_available_path.
\* A path is its parent and its file name; a file name is its characters.

\* Largest number of local paths in the directory.
MaxFiles == 4

\* Longest file name given as a target, in characters.
MaxName == 3

NameChars == {"a", "."}

\* File names of up to MaxName characters; "." and ".." are no file names.
BaseNames ==
    UNION {[1..n -> NameChars] : n \in 1..MaxName} \ {<<".">>, <<".", ".">>}

Parents == {"", "d"}

DigitChar(d) == <<"0", "1", "2", "3", "4", "5", "6", "7", "8", "9">>[d + 1]

\* format!("{}", index)
IndexChars(index) == [i \in 1..Len(Digits(index)) |-> DigitChar(Digits(index)[i])]

\* str::rfind('.'): the position of the last dot, 0 when there is none.
RFind(name) ==
    LET dots == {i \in 1..Len(name) : name[i] = "."}
    IN  IF dots = {} THEN 0 ELSE CHOOSE i \in dots : \A j \in dots : j <= i

\* str::find('.'): the position of the first dot, 0 when there is none.
Find(name) ==
    LET dots == {i \in 1..Len(name) : name[i] = "."}
    IN  IF dots = {} THEN 0 ELSE CHOOSE i \in dots : \A j \in dots : i <= j

\* Lines 930-944 of path_with_suffix: the stem and the extension the code
\* takes from a file name split at the dot in position pos.
SplitAt(file_name, pos) ==
    IF Len(file_name) = 0 THEN [stem |-> <<"download">>, ext |-> <<>>, some |-> FALSE]
    ELSE IF pos = 0 THEN [stem |-> file_name, ext |-> <<>>, some |-> FALSE]
    ELSE LET stem == SubSeq(file_name, 1, pos - 1)
             ext == SubSeq(file_name, pos, Len(file_name))
         IN  IF Len(stem) = 0 THEN [stem |-> file_name, ext |-> <<>>, some |-> FALSE]
             ELSE IF Len(ext) > 1
             THEN [stem |-> stem, ext |-> SubSeq(ext, 2, Len(ext)), some |-> TRUE]
             ELSE [stem |-> stem, ext |-> <<>>, some |-> FALSE]

\* Lines 946-956: the candidate name, joined to the parent.
Candidate(base, split, index) ==
    [parent |-> base.parent,
     name |-> split.stem \o <<"-">> \o IndexChars(index)
              \o (IF split.some THEN <<".">> \o split.ext ELSE <<>>)]

\* A path_with_suffix that splits the name at its first dot.
PathWithSuffixFirstDot(base, index) ==
    Candidate(base, SplitAt(base.name, Find(base.name)), index)

path_with_suffix(base, index) ==
    Candidate(base, SplitAt(base.name, RFind(base.name)), index)

\* The loop of next_available_path from `index` on.
RECURSIVE FirstFree(_, _, _)
FirstFree(base, index, found) ==
    IF path_with_suffix(base, index) \notin found THEN path_with_suffix(base, index)
    ELSE FirstFree(base, index + 1, found)

next_available_path(base, found) ==
    IF base \notin found THEN base ELSE FirstFree(base, 1, found)

\* A probe that fetches the body.
ProbeFetchesBody(probe) == {"HEAD", "GET"}

\* The requests of probe_file: HEAD, and GET with Range: bytes=0-0 when the
\* HEAD did not succeed.
ProbeRequests(probe) == IF probe = "head" THEN {"HEAD"} ELSE {"HEAD", "GET 0-0"}

\* download (lines 37-121) down to the transfer, and the head of download_file
\* (lines 144-188): what the command has done when it either returns or
\* starts to transfer.
download(call, found) ==
    LET c0 == [call EXCEPT !.requests = {"LIST"}, !.before = found]
    IN  IF call.listing = "error"
        THEN [c0 EXCEPT !.stage = "done", !.result = "err"]
        ELSE IF call.listing = "dir"
        THEN IF ~call.recursive
             THEN [c0 EXCEPT !.stage = "done", !.result = "err"]
             ELSE IF call.strategy = "Duplicate"
             THEN [c0 EXCEPT !.stage = "transfer",
                             !.output = IF call.base \in found
                                        THEN next_available_path(call.base, found)
                                        ELSE call.base]
             ELSE IF call.strategy = "Skip" /\ call.base \in found
             THEN [c0 EXCEPT !.stage = "done", !.result = "ok", !.skipped = TRUE,
                             !.output = call.base]
             ELSE [c0 EXCEPT !.stage = "transfer", !.output = call.base]
        ELSE LET c1 == [c0 EXCEPT !.requests = @ \cup ProbeRequests(call.probe)]
                 output_path == IF call.strategy = "Duplicate"
                                THEN next_available_path(call.base, found)
                                ELSE call.base
             IN  IF call.probe = "fail"
                 THEN [c1 EXCEPT !.stage = "done", !.result = "err"]
                 ELSE IF call.strategy = "Skip" /\ output_path \in found
                 THEN [c1 EXCEPT !.stage = "done", !.result = "ok", !.skipped = TRUE,
                                 !.output = output_path]
                 ELSE [c1 EXCEPT !.stage = "transfer", !.output = output_path]

\* The local paths a command can find: the target and its first candidates.
Neighbours(base) == {base} \cup {path_with_suffix(base, n) : n \in 1..2}

TargetInit ==
    /\ \E base \in [parent : Parents, name : BaseNames] :
          /\ tDisk \in SUBSET Neighbours(base)
          /\ \E strategy \in {"Overwrite", "Skip", "Duplicate"},
                listing \in {"file", "dir", "error"},
                recursive \in BOOLEAN,
                probe \in {"head", "get", "fail"} :
                tCall = [NoCall EXCEPT !.strategy = strategy, !.listing = listing,
                                       !.recursive = recursive, !.probe = probe,
                                       !.base = base, !.stage = "start"]
    /\ SelIdleInit /\ StateIdleInit /\ LateIdleInit
    /\ DlIdleInit /\ PlanIdleInit /\ RetryIdleInit /\ CleanIdleInit

TargetFrame ==
    UNCHANGED <<selVars, stateVars, lateVars, dlVars, planVars, retryVars, cleanVars>>

\* The command up to the point where it returns or starts to transfer.
TDownload ==
    /\ tCall.stage = "start"
    /\ tCall' = download(tCall, tDisk)
    /\ UNCHANGED tDisk
    /\ TargetFrame

\* The transfer: the temp file is tracked and created; the body is requested;
\* on success the file (or directory) is at the output path.
TTransfer ==
    /\ tCall.stage = "transfer"
    /\ \E ok \in BOOLEAN :
          IF ok
          THEN /\ tDisk' = tDisk \cup {tCall.output}
               /\ tCall' = [tCall EXCEPT !.stage = "done", !.result = "ok",
                                         !.requests = @ \cup {"GET"}]
          ELSE /\ UNCHANGED tDisk
               /\ tCall' = [tCall EXCEPT !.stage = "done", !.result = "err",
                                         !.requests = @ \cup {"GET"},
                                         !.created = IF tCall.listing = "file"
                                                     THEN {"temp"} ELSE {},
                                         !.tracked = IF tCall.listing = "file"
                                                     THEN {"temp"} ELSE {}]
    /\ TargetFrame

\* The same command is given again.
TAgain ==
    /\ tCall.stage = "done"
    /\ Cardinality(tDisk) < MaxFiles
    /\ tCall' = [NoCall EXCEPT !.strategy = tCall.strategy, !.listing = tCall.listing,
                               !.recursive = tCall.recursive, !.probe = tCall.probe,
                               !.base = tCall.base, !.stage = "start"]
    /\ UNCHANGED tDisk
    /\ TargetFrame

TargetNext == TDownload \/ TTransfer \/ TAgain

SpecTarget == TargetInit /\ [][TargetNext]_vars

\* std::path: Path::file_stem and Path::extension of a file name (the name
\* split at its last dot, unless that dot is its first character); an empty
\* extension is no extension.
FileStem(name) ==
    IF RFind(name) <= 1 THEN name ELSE SubSeq(name, 1, RFind(name) - 1)

Extension(name) ==
    IF RFind(name) <= 1 THEN <<>> ELSE SubSeq(name, RFind(name) + 1, Len(name))

\* The path with the parent and the extension of p whose stem is <stem>-N.
Suffixed(p, N) ==
    [parent |-> p.parent,
     name |-> FileStem(p.name) \o <<"-">> \o IndexChars(N)
              \o (IF Extension(p.name) = <<>> THEN <<>>
                  ELSE <<".">> \o Extension(p.name))]

\* next_available_path was applied to p on the paths it saw, and gave q.
Applied(p, q) ==
    /\ tCall.stage \in {"transfer", "done"} /\ tCall.result # "err"
    /\ tCall.strategy = "Duplicate"
    /\ tCall.listing = "file" \/ tCall.base \in tCall.before
    /\ p = tCall.base /\ q = tCall.output

\* A file name that ends in a dot has an empty extension; the candidates are
\* written without that dot.
EndsInDot(name) == Len(name) > 0 /\ name[Len(name)] = "."

SkippedOver ==
    /\ tCall.stage = "done"
    /\ tCall.strategy = "Skip"
    /\ tCall.base \in tCall.before
    /\ tCall.listing = "dir" => tCall.recursive

LeftUntouched ==
    /\ tCall.result = "ok"
    /\ tDisk = tCall.before
    /\ tCall.created = {}
    /\ tCall.tracked = {}
    /\ "GET" \notin tCall.requests

----------------------------------------------------------------------------
\* C23: with the Overwrite strategy an existing output is replaced
\* atomically: at every instant of the run the output path holds either the
\* complete old file or the complete new file; it is never absent and never
\* partial.
C23_AtomicReplace ==
    hist.outAtStart.exists
        => \/ outFile = hist.outAtStart
           \/ outFile.exists /\ outFile.data = ServerData

\* The bytes of a file are the first bytes of the response body.
IsBodyPrefix(data) == \A i \in 1..Len(data) : data[i] = ServerByte(i - 1)

PartPresent(start, d) ==
    \A o \in start..(start + d - 1) :
        /\ tempFile.exists
        /\ o < Len(tempFile.data)
        /\ tempFile.data[o + 1] = ServerByte(o)

\* A worker has recorded its downloaded value in the shared state and is
\* writing the snapshot.
Recording(i) == w[i].pc \in {"rename", "renamef"}

\* C25: whenever a worker records its downloaded value d and snapshots it,
\* all d bytes of its part have been written through to the temp file; none
\* is held only in the worker's write buffer.
C25_WriteThroughBeforeRecord ==
    \A i \in DOMAIN w :
        Recording(i) => w[i].buf = 0 /\ PartPresent(w[i].start, w[i].local)

\* C26: the state side-file never outlives the temp file it describes: at
\* every instant of every run, a crash between two steps of finalize
\* included, if the state side-file exists then the temp file exists.
C26_StateNeverOutlivesTemp == stateFile.exists => tempFile.exists


\* The workers that were spawned.
Spawned == {i \in DOMAIN w : w[i].pc # "idle"}

\* The file offsets whose byte differs after the step.
Changed ==
    {o \in 0..(Len(tempFile'.data) - 1) :
        o >= Len(tempFile.data) \/ tempFile'.data[o + 1] # tempFile.data[o + 1]}

\* C27: in every interleaving of the workers of a multi-stream download,
\* every byte the worker of part i writes lies at an offset in
\* [start_i, end_i]; a part has one worker at most, and the ranges of two
\* workers share no offset, so no offset is written by two workers.
C27_DisjointWrites ==
    /\ [](\A i, j \in Spawned :
             i # j => (w[i].end < w[j].start \/ w[j].end < w[i].start))
    /\ [][(pc = "join" /\ tempFile.exists /\ Changed # {})
            => \E i \in Spawned :
                  /\ w'[i] # w[i]
                  /\ \A j \in Spawned \ {i} : w'[j] = w[j]
                  /\ \A o \in Changed : w[i].start <= o /\ o <= w[i].end]_vars

\* Two workers are running and each has written a byte of its part.
C27_Witness ==
    /\ pc = "join"
    /\ Cardinality(Spawned) = 2
    /\ \A i \in Spawned : tempFile.data[w[i].start + 1] = ServerByte(w[i].start)
    /\ \E i \in Spawned : w[i].pc = "recv"


\* The worker of part i has returned.
Returned(i) == w[i].pc = "done"

\* C28: a worker returns success only if it received and wrote every
\* remaining byte of its part (remaining = 0); when the body ends while bytes
\* remain it returns the "download interrupted" error, after recording the
\* bytes it did receive.
C28_WorkerSuccessMeansComplete ==
    \A i \in DOMAIN w :
        Returned(i)
            => /\ w[i].res = "ok"
                    => /\ w[i].remaining = 0
                       /\ w[i].local = PartLen(w[i])
                       /\ pc = "join"
                            => PartPresent(
                                  w[i].start + Min(w[i].downloaded, PartLen(w[i])),
                                  PartLen(w[i]) - Min(w[i].downloaded, PartLen(w[i])))
               /\ w[i].eof
                    => /\ w[i].res = "err"
                       /\ w[i].remaining > 0
                       /\ st.parts[i].downloaded = w[i].local

\* A body ended after one byte of a two-byte part: the worker recorded the
\* byte and returned the error.
C28_Witness ==
    \E i \in DOMAIN w :
        /\ Returned(i) /\ w[i].eof /\ w[i].res = "err"
        /\ w[i].local = 1 /\ w[i].remaining = 1
        /\ st.parts[i].downloaded = 1


\* The worker of part i got 206 for its range request.
Receiving(i) == w[i].pc \notin {"idle", "spawned"} /\ ~(w[i].pc = "done" /\ w[i].local = 0)

\* C29: each worker requests exactly Range: bytes=<start+downloaded>-<end>
\* for its part and starts to write at file offset start+downloaded (so the
\* byte of the remote offset o goes to the file offset o); a worker whose
\* response status is not 206 fails without writing a byte to the temp file.
C29_RangeAndSeek ==
    /\ [](\A i \in DOMAIN w :
             Receiving(i)
                => /\ w[i].srvNext = w[i].start + w[i].local
                   /\ w[i].fileNext = w[i].srvNext
                   /\ w[i].local >= w[i].downloaded
                   /\ w[i].srvNext <= w[i].end + 1)
    /\ [][\A i \in DOMAIN w :
             (pc' = "join" /\ w[i].pc = "spawned" /\ w'[i].pc # "spawned")
                => IF w'[i].pc = "done"
                   THEN /\ w'[i].res \in {"err", "panic"}
                        /\ tempFile' = tempFile
                   ELSE /\ w'[i].srvNext = w[i].start + w[i].downloaded
                        /\ w'[i].fileNext = w[i].start + w[i].downloaded]_vars

\* A worker resumes the second part with one byte of it recorded: it asked
\* for the range from start + 1 and is about to write there.
C29_Witness ==
    \E i \in DOMAIN w :
        /\ w[i].pc = "recv" /\ w[i].start > 0
        /\ w[i].downloaded = 1 /\ w[i].local = 1
        /\ w[i].srvNext = w[i].start + 1


\* C30: a worker enters the record-and-snapshot section inside its loop only
\* with at least Threshold bytes received since the value it recorded last,
\* and once more after the loop only when it has flushed and holds bytes it
\* has not recorded; after that last recording it returns and records no
\* more.  While the workers run, the shared state, the state side-file and
\* its staging file change only in a step of one worker that is entering or
\* leaving that section.
InLoopSection(i) == w[i].pc \in {"lock", "rename"}
FinalSection(i) == w[i].pc \in {"lockf", "renamef"}
Persisted == <<st, stateFile, stagingFile>>
C30_RecordOnlyOverThreshold ==
    /\ [](\A i \in DOMAIN w :
            /\ InLoopSection(i) => w[i].local - w[i].last >= Threshold
            /\ FinalSection(i) => w[i].local > w[i].last /\ w[i].buf = 0)
    /\ [][pc = "join" /\ pc' = "join" =>
            /\ Persisted' # Persisted =>
                  \E i \in DOMAIN w :
                    /\ InLoopSection(i) \/ FinalSection(i)
                    /\ w'[i].pc # w[i].pc
                    /\ \A j \in DOMAIN w \ {i} : w'[j] = w[j]
            /\ \A i \in DOMAIN w :
                  /\ w[i].pc = "renamef" => w'[i].pc \in {"renamef", "done"}
                  /\ w[i].pc = "done" => w'[i].pc = "done"]_vars

\* A worker is in the section inside its loop for the second time in one run.
C30_Witness ==
    /\ pc = "join"
    /\ \E i \in DOMAIN w :
         /\ w[i].pc = "rename"
         /\ w[i].last > w[i].downloaded
         /\ w[i].local - w[i].last >= Threshold

\* C31: while the workers run, at most one of them is between taking the
\* mutex and releasing it, and that one holds it; the staging side-file exists
\* only then and holds the state in memory; the state side-file holds the
\* state in memory when nobody records, and the state as it was before the
\* recording worker changed its own part otherwise.
BeforeRecording(i) == [st EXCEPT !.parts[i].downloaded = w[i].last]
C31_RecordAtomic ==
    pc = "join" =>
      /\ \A i, j \in DOMAIN w : Recording(i) /\ Recording(j) => i = j
      /\ \A i \in DOMAIN w : Recording(i) <=> lock = i
      /\ stateFile.exists
      /\ lock = 0 => ~stagingFile.exists /\ stateFile.val = to_json(st)
      /\ lock # 0 => /\ stagingFile.exists
                     /\ stagingFile.val = to_json(st)
                     /\ stateFile.val = to_json(BeforeRecording(lock))

\* One worker is recording while another waits for the mutex.
C31_Witness ==
    /\ pc = "join"
    /\ \E i, j \in DOMAIN w :
         /\ i # j
         /\ Recording(i)
         /\ w[j].pc \in {"lock", "lockf"}

----------------------------------------------------------------------------
\* save_partial_state on its own (download.rs 977-1003): every file-system
\* call is a step, any of them can fail, and the process can die between them.

\* How many times the state is saved.
MaxSaves == 3

\* The states a download hands to save_partial_state: its layout with the
\* progress of the first part.
SaveStates ==
    LET fresh == NewState(MaxTotal, MaxConn)
    IN  {set_downloaded(fresh, 0, d) : d \in 0..PartLen(fresh.parts[1])}

\* A file that was created or truncated and not written to the end.
Torn == [exists |-> TRUE, val |-> Garbled]

SaveInit ==
    /\ svFile \in {NoStateFile} \cup {[exists |-> TRUE, val |-> to_json(s)] : s \in SaveStates}
    /\ svStaging \in {NoStateFile, Torn}
    /\ svDone = IF svFile.exists THEN {svFile.val} ELSE {}
    /\ svCall = [NoSave EXCEPT !.pc = "ready"]
    /\ ActiveIdleInit /\ ClassIdleInit
    /\ SelIdleInit /\ StateIdleInit /\ TargetIdleInit
    /\ DlIdleInit /\ PlanIdleInit /\ RetryIdleInit /\ CleanIdleInit

SaveFrame ==
    UNCHANGED <<activeVars, classVars, selVars, stateVars, targetVars, dlVars, planVars,
                retryVars, cleanVars>>

\* A worker (or the main thread) calls save_partial_state(temp_path, &state).
SvCall ==
    /\ svCall.pc = "ready"
    /\ svCall.calls < MaxSaves
    /\ \E s \in SaveStates :
         svCall' = [pc |-> "write", state |-> s, before |-> svFile,
                    calls |-> svCall.calls + 1, writeFailed |-> FALSE,
                    renameFailed |-> FALSE]
    /\ UNCHANGED <<svFile, svStaging, svDone>>
    /\ SaveFrame

\* A save that writes the state side-file in place.
SvWriteOpenInPlace ==
    /\ svCall.pc = "write"
    /\ \E ok \in BOOLEAN :
         IF ok
         THEN /\ svFile' = Torn
              /\ svCall' = [svCall EXCEPT !.pc = "write2"]
         ELSE /\ svCall' = [svCall EXCEPT !.pc = "returned", !.writeFailed = TRUE]
              /\ UNCHANGED svFile
    /\ UNCHANGED <<svStaging, svDone>>
    /\ SaveFrame

\* fs::write(&tmp, &data), line 982: the file is created or truncated ...
SvWriteOpen ==
    /\ svCall.pc = "write"
    /\ \E ok \in BOOLEAN :
         IF ok
         THEN /\ svStaging' = Torn
              /\ svCall' = [svCall EXCEPT !.pc = "write2"]
         ELSE /\ svCall' = [svCall EXCEPT !.pc = "returned", !.writeFailed = TRUE]
              /\ UNCHANGED svStaging
    /\ UNCHANGED <<svFile, svDone>>
    /\ SaveFrame

\* ... and the serialized state is written to it; on failure the function
\* returns (lines 983-988) and leaves what was written.
SvWriteData ==
    /\ svCall.pc = "write2"
    /\ \E ok \in BOOLEAN :
         IF ok
         THEN /\ svStaging' = [exists |-> TRUE, val |-> to_json(svCall.state)]
              /\ svDone' = svDone \cup {to_json(svCall.state)}
              /\ svCall' = [svCall EXCEPT !.pc = "rename"]
         ELSE /\ svCall' = [svCall EXCEPT !.pc = "returned", !.writeFailed = TRUE]
              /\ UNCHANGED <<svStaging, svDone>>
    /\ UNCHANGED svFile
    /\ SaveFrame

\* fs::rename(&tmp, &path), line 990.
SvRename ==
    /\ svCall.pc = "rename"
    /\ \E ok \in BOOLEAN :
         IF ok
         THEN /\ svFile' = svStaging
              /\ svStaging' = NoStateFile
              /\ svCall' = [svCall EXCEPT !.pc = "returned"]
         ELSE /\ svCall' = [svCall EXCEPT !.pc = "remove", !.renameFailed = TRUE]
              /\ UNCHANGED <<svFile, svStaging>>
    /\ UNCHANGED svDone
    /\ SaveFrame

\* let _ = fs::remove_file(&tmp), line 991.
SvRemove ==
    /\ svCall.pc = "remove"
    /\ svStaging' = NoStateFile
    /\ svCall' = [svCall EXCEPT !.pc = "returned"]
    /\ UNCHANGED <<svFile, svDone>>
    /\ SaveFrame

\* The function returns (it has no error to return) and the caller goes on.
SvReturn ==
    /\ svCall.pc = "returned"
    /\ svCall' = [svCall EXCEPT !.pc = "ready"]
    /\ UNCHANGED <<svFile, svStaging, svDone>>
    /\ SaveFrame

\* The process dies inside save_partial_state and is started again.
SvCrash ==
    /\ svCall.pc \in {"write", "write2", "rename", "remove"}
    /\ svCall' = [NoSave EXCEPT !.pc = "ready", !.calls = svCall.calls]
    /\ UNCHANGED <<svFile, svStaging, svDone>>
    /\ SaveFrame

SaveNext ==
    \/ SvCall \/ SvWriteOpen \/ SvWriteData \/ SvRename \/ SvRemove \/ SvReturn
    \/ SvCrash

SpecSave == SaveInit /\ [][SaveNext]_vars

Unparsable(found) == found.state.exists /\ ~found.state.val.ok
C33_UnparsableStateRestarts ==
    sel.stage = "done" /\ sel.probe.ok /\ Unparsable(persisted) =>
      /\ ~load_partial_state(persisted.state).some
      /\ sel.mode # "asis"
      /\ sel.mode = "single" => ResumeFrom(sel.probe, persisted) = 0

\* C34: a run that finds a state side-file whose total differs from the total
\* it probed removes the temp file and both side-files and forgets the loaded
\* state and the temp file's length; it does not finalize the temp file as it
\* is, every part of its multi-stream download gets a worker that starts at
\* downloaded = 0 and its single stream starts at offset 0.  From the removal
\* on, in this run and in a later one, no byte of the old temp file is in the
\* temp file or in the file a run produces.
StaleFree(f) == \A k \in 1..Len(f.data) : f.data[k] # Stale
MismatchCase == leftover = "other" /\ lengthKnown /\ srvSize > 0
----------------------------------------------------------------------------
\* The active-connections counter (progress.rs 88-114) in the scope of
\* download_with_multiple_connections (download.rs 361, 427-549).

IdleConn == [pc |-> "spawned", how |-> "none"]

ActiveInit ==
    /\ acCount = 0
    /\ acW = <<>>
    /\ \E n \in 1..(MaxConn + 1) : acMain = [pc |-> "spawn", items |-> n, shown |-> 0]
    /\ SaveIdleInit /\ ClassIdleInit
    /\ SelIdleInit /\ StateIdleInit /\ TargetIdleInit
    /\ DlIdleInit /\ PlanIdleInit /\ RetryIdleInit /\ CleanIdleInit

ActiveFrame ==
    UNCHANGED <<saveVars, classVars, selVars, stateVars, targetVars, dlVars, planVars,
                retryVars, cleanVars>>

Active == {i \in DOMAIN acW : acW[i].pc = "running"}

\* Lines 430-527: scope.spawn, one work item per turn of the loop.
AcSpawn ==
    /\ acMain.pc = "spawn"
    /\ acW' = Append(acW, IdleConn)
    /\ acMain' = [acMain EXCEPT !.pc = IF Len(acW) + 1 = acMain.items THEN "join"
                                     ELSE "spawn"]
    /\ UNCHANGED acCount
    /\ ActiveFrame

\* ActiveConnectionGuard::new, the first statement of the worker: fetch_add
\* and the message with the new value.
AcStart(i) ==
    /\ acW[i].pc = "spawned"
    /\ acCount' = wrapping_add(acCount, 1)
    /\ acMain' = [acMain EXCEPT !.shown = saturating_add(acCount, 1)]
    /\ acW' = [acW EXCEPT ![i].pc = "running"]
    /\ ActiveFrame

\* A worker whose guard is dropped only when it returns normally.
AcExitLeaksOnUnwind(i) ==
    /\ acW[i].pc = "running"
    /\ \E how \in {"ok", "err", "panic"} :
         /\ acW' = [acW EXCEPT ![i].pc = "exited", ![i].how = how]
         /\ IF how = "panic"
            THEN UNCHANGED <<acCount, acMain>>
            ELSE /\ acCount' = wrapping_sub(acCount, 1)
                 /\ acMain' = [acMain EXCEPT !.shown = saturating_sub(acCount, 1)]
    /\ ActiveFrame

\* The worker ends: Ok(()), an error through `?`, or a panic.  The guard is a
\* local of the closure, so Drop runs on each of them: fetch_sub and the
\* message with the new value.
AcExit(i) ==
    /\ acW[i].pc = "running"
    /\ \E how \in {"ok", "err", "panic"} :
         acW' = [acW EXCEPT ![i].pc = "exited", ![i].how = how]
    /\ acCount' = wrapping_sub(acCount, 1)
    /\ acMain' = [acMain EXCEPT !.shown = saturating_sub(acCount, 1)]
    /\ ActiveFrame

SomeAcStart == \E i \in DOMAIN acW : AcStart(i)
SomeAcExit == \E i \in DOMAIN acW : AcExit(i)

\* Lines 529-549: the handles are joined and the scope ends, which waits for
\* every thread; an error or panic of a worker is returned, else the counter
\* is loaded and displayed.
AcJoin ==
    /\ acMain.pc = "join"
    /\ \A i \in DOMAIN acW : acW[i].pc = "exited"
    /\ acMain' = IF \E i \in DOMAIN acW : acW[i].how # "ok"
                 THEN [acMain EXCEPT !.pc = "returned_err"]
                 ELSE [acMain EXCEPT !.pc = "returned_ok", !.shown = acCount]
    /\ UNCHANGED <<acCount, acW>>
    /\ ActiveFrame

ActiveNext == AcSpawn \/ SomeAcStart \/ SomeAcExit \/ AcJoin

SpecActive == ActiveInit /\ [][ActiveNext]_vars

\* C35: the counter is the number of workers that have started and not
\* ended; it lies between 0 and the number of workers spawned so far; every
\* end of a worker, normal, with an error or by a panic, takes one off; when
\* the scope has ended it is 0.
C35_ActiveCounter ==
    /\ [](acCount = Cardinality(Active))
    /\ [](acCount >= 0 /\ acCount <= Len(acW))
    /\ [](acMain.pc \in {"returned_ok", "returned_err"} =>
            acCount = 0 /\ \A i \in DOMAIN acW : acW[i].pc = "exited")
    /\ [][\A i \in DOMAIN acW :
            acW[i].pc = "running" /\ acW'[i].pc = "exited" => acCount' = acCount - 1]_vars

\* The scope has ended after one worker panicked and another returned Ok.
C35_Witness ==
    /\ acMain.pc = "returned_err"
    /\ \E i, j \in DOMAIN acW : acW[i].how = "panic" /\ acW[j].how = "ok"
    /\ acCount = 0

\* C36: whenever the main thread is anywhere but in the scope that runs the
\* workers, every worker has ended, holds no byte in its BufWriter and does
\* not hold the mutex; a step taken outside the scope changes no worker and
\* changes the temp file only by the rename of finalize or a removal by the
\* main thread.
Terminated(i) == w[i].pc \in {"idle", "done"} /\ w[i].buf = 0
C36_StructuredJoin ==
    /\ [](pc # "join" => lock = 0 /\ \A i \in DOMAIN w : Terminated(i))
    /\ [][pc # "join" /\ pc' \notin {"join", "start", "dead"} =>
            /\ w' = w
            /\ tempFile' # tempFile => pc \in {"fin_rename", "s1", "s3", "g_restart",
                                              "m_open", "m_setlen", "empty_create",
                                              "empty_rename", "s2", "g_open",
                                              "g_stream", "g_flush"}]_vars

\* The function has returned an error: the first worker failed and the second
\* one went on to the end of its part.
C36_Witness ==
    /\ pc = "ret_err"
    /\ hist.mode = "multi"
    /\ Len(w) = 2
    /\ w[1].res = "err" /\ w[1].local = w[1].downloaded
    /\ w[2].res = "ok" /\ w[2].local > w[2].downloaded

\* C37: when retry has returned, every invocation of func but the last failed
\* with a retryable error and was followed by one sleep, and the last was
\* followed by none; retry returned Ok exactly when the last invocation
\* succeeded, and otherwise the error of the last invocation, which is
\* terminal or is the error of invocation number max(max_attempts, 1); after
\* the return nothing is invoked and nothing sleeps.
Outcome(n) == perform_upload_attempt(Scripted(n))
C37_ReturnsAtOnce ==
    /\ [](rpc = "done" =>
            /\ calls >= 1 /\ calls <= Attempts
            /\ \A n \in 1..(calls - 1) :
                 ~Outcome(n).ok /\ is_retryable_error(Outcome(n).err)
            /\ Len(sleeps) = calls - 1
            /\ \A k \in 1..Len(sleeps) : sleeps[k].after = k
            /\ rResult = "ok" <=> Outcome(calls).ok
            /\ rResult = "err" =>
                 /\ lastErr = Outcome(calls).err
                 /\ ~is_retryable_error(lastErr) \/ calls = Attempts)
    /\ [][rpc = "done" => calls' = calls /\ sleeps' = sleeps /\ rResult' = rResult]_vars

\* retry returned a terminal error after one retry, with attempts to spare.
C37_Witness ==
    /\ rpc = "done"
    /\ rResult = "err"
    /\ calls = 2
    /\ Attempts > 2
    /\ ~is_retryable_error(lastErr)

----------------------------------------------------------------------------
\* is_retryable_error on its own (retry.rs 41-72), over bounded causal chains.

\* Longest causal chain.
MaxChain == 3

Statuses == {404, 408, 429, 499, 500, 599}
IoKinds == RetryableIo \cup {"NotFound"}

\* What one link of err.chain() can be: a message (a context or an error of
\* another type), a reqwest error, an io error.
Causes ==
    {Msg} \cup
    {ReqwestError(FALSE, FALSE, FALSE, None), ReqwestError(TRUE, FALSE, FALSE, None),
     ReqwestError(FALSE, TRUE, FALSE, None), ReqwestError(FALSE, FALSE, TRUE, None),
     ReqwestError(TRUE, FALSE, FALSE, 404)} \cup
    {ReqwestError(FALSE, FALSE, FALSE, s) : s \in Statuses} \cup
    {IoError(k) : k \in IoKinds}

ClassInit ==
    /\ ceChain \in UNION {[1..n -> Causes] : n \in 1..MaxChain}
    /\ ceVerdict = "none"
    /\ SaveIdleInit /\ ActiveIdleInit
    /\ SelIdleInit /\ StateIdleInit /\ TargetIdleInit
    /\ DlIdleInit /\ PlanIdleInit /\ RetryIdleInit /\ CleanIdleInit

\* retry.rs line 16: the error of an attempt is classified.
CeClassify ==
    /\ ceVerdict = "none"
    /\ ceVerdict' = IF is_retryable_error(ceChain) THEN "retryable" ELSE "terminal"
    /\ UNCHANGED <<ceChain, saveVars, activeVars, selVars, stateVars, targetVars, dlVars,
                   planVars, retryVars, cleanVars>>

\* The error is passed up through with_context / context, which puts a
\* message in front of the chain, and is classified again.
CeContext ==
    /\ ceVerdict # "none"
    /\ Len(ceChain) < MaxChain + 1
    /\ ceChain' = <<Msg>> \o ceChain
    /\ ceVerdict' = "none"
    /\ UNCHANGED <<saveVars, activeVars, selVars, stateVars, targetVars, dlVars, planVars,
                   retryVars, cleanVars>>

ClassNext == CeClassify \/ CeContext

SpecClassify == ClassInit /\ [][ClassNext]_vars

\* C38: the first cause of the chain, from the outermost, that is an HTTP
\* error with timeout, connect or body set, an HTTP error with a status, or an
\* I/O error of a transient kind decides: retryable for the first and the
\* last, and for a status that is 5xx, 408 or 429; terminal for any other
\* status, whatever follows it in the chain.  A chain with no such cause is
\* terminal.
Transport(c) == c.type = "reqwest" /\ (c.timeout \/ c.connect \/ c.body)
WithStatus(c) == c.type = "reqwest" /\ c.status # None
TransientIo(c) ==
    c.type = "io" /\ c.io \in {"TimedOut", "ConnectionReset", "ConnectionAborted",
                               "BrokenPipe", "UnexpectedEof", "WouldBlock",
                               "Interrupted"}
Deciding(c) == Transport(c) \/ WithStatus(c) \/ TransientIo(c)
RetryableStatus(s) == (s >= 500 /\ s < 600) \/ s = 408 \/ s = 429
Stated(chain) ==
    IF \A k \in 1..Len(chain) : ~Deciding(chain[k]) THEN "terminal"
    ELSE LET first == CHOOSE k \in 1..Len(chain) :
                         Deciding(chain[k]) /\ \A j \in 1..(k - 1) : ~Deciding(chain[j])
             c == chain[first]
         IN  IF Transport(c) \/ (~WithStatus(c) /\ TransientIo(c)) THEN "retryable"
             ELSE IF RetryableStatus(c.status) THEN "retryable"
             ELSE "terminal"
C38_Retryability == ceVerdict # "none" => ceVerdict = Stated(ceChain)

\* A 404 under a context, followed by a timed-out I/O error, was classified.
C38_Witness ==
    /\ ceVerdict = "terminal"
    /\ ceChain = <<Msg, ReqwestError(FALSE, FALSE, FALSE, 404), IoError("TimedOut")>>

\* C39: in every finalize, the rename puts the temp file on an output path
\* that holds no file; once the removal of the existing output or the rename
\* has failed, the download is returning or has returned an error; the step
\* in which either fails leaves the registry, with the temp path in it, and
\* both side-files as they are.
FinalizeFailed == hist.removeFailed \/ hist.renameFailed
C39_FinalizeFailureIsFatal ==
    /\ [](FinalizeFailed => pc = "ret_err" \/ (pc = "done" /\ result = "err"))
    /\ [][/\ ~hist.renamed /\ hist'.renamed => ~outFile.exists
          /\ ~FinalizeFailed /\ FinalizeFailed' =>
               /\ TempPath \in registry' /\ registry' = registry
               /\ stateFile' = stateFile /\ stagingFile' = stagingFile]_vars

\* C40: from the first snapshot of a multi-stream run (line 373) to the join,
\* the state side-file always exists and a step never lowers the downloaded
\* value it holds for a part, nor the one in memory; the position of the
\* progress sink, which is the bytes counted at line 376 for each part plus
\* the bytes each worker has counted at line 498, never exceeds total.
InRun == pc \in {"m_spawn", "join"}
Snapshot == from_json(stateFile.val)
Counted(i) ==
    IF w[i].pc = "idle" THEN Min(st.parts[i].downloaded, PartLen(st.parts[i]))
    ELSE Max(w[i].local, w[i].downloaded)
Position == SumTo([i \in 1..Len(w) |-> Counted(i)], Len(w))
C40_MonotoneProgress ==
    /\ [](InRun => stateFile.exists /\ stateFile.val.ok)
    /\ [](pc = "join" => Position <= Total /\ completed_bytes(st) <= Position)
    /\ [][InRun /\ InRun' =>
            /\ Len(Snapshot'.parts) = Len(Snapshot.parts)
            /\ \A i \in 1..Len(Snapshot.parts) :
                 Snapshot'.parts[i].downloaded >= Snapshot.parts[i].downloaded
            /\ \A i \in 1..Len(st.parts) :
                 st'.parts[i].downloaded >= st.parts[i].downloaded]_vars

\* A resumed part: the snapshot holds more for it than the run started with,
\* and everything has been counted.
C40_Witness ==
    /\ pc = "join"
    /\ Position = Total
    /\ \E i \in DOMAIN w :
         /\ w[i].downloaded > 0
         /\ Snapshot.parts[i].downloaded > w[i].downloaded

====
